---- MODULE Spec2Model ----
(***************************************************************************)
(* Model of slugbot's asynchronous execution and live-status subsystem:    *)
(*   - exec.TaskQueue   (src/internal/exec/task_queue.go)                  *)
(*   - discord.Message  (src/unnamed/part_005, reply variant, and          *)
(*                       src/internal/discord/message.go, plain variant)   *)
(*   - exec.TaskQueueView (src/internal/exec/task_queue_view.go)           *)
(*   - PollableFile (src/unnamed/part_007), discord.FilePollMessage        *)
(*     (src/unnamed/part_003) and the Apply that drives them               *)
(*     (src/internal/commands/command.go)                                  *)
(* Spec / FairSpec : the task queue with concurrent Enqueue callers.       *)
(* SpecMsg         : one Message driven through Create/Update/Delete.      *)
(* SpecMsgFields   : SpecMsg plus the direct writes to the exported fields *)
(*                   that message_test.go performs.                        *)
(* SpecView        : the queue, one periodic Refresh of its view, and      *)
(*                   other posts in the channel.                           *)
(* SpecPoll        : one Apply: constructor, Start, the polling goroutine, *)
(*                   the ticker, the progress file, and Stop on every exit *)
(*                   path.                                                 *)
(* SpecViewRace    : two Refresh calls on one view at the same time, the   *)
(*                   send and the store of the id as separate steps.       *)
(* SpecPollClient  : the Apply of SpecPoll with a holder of the session    *)
(*                   that calls Start again before any Stop.               *)
(* SpecRegistry    : the submission handlers and the registries of queues  *)
(*                   and views (src/unnamed/part_000, cmd/slugbot/main.go) *)
(* SpecInline      : StableAudioCommand.Apply with its progress poller     *)
(*                   inline (src/internal/commands/audio/stable-audio.go)  *)
(***************************************************************************)
EXTENDS Integers, Sequences, FiniteSets, TLC

\* ------------------------------------------------------------------ bounds
MaxTasks == 3
NumCallers == 2
NumConsumers == 2
MaxCalls == 4
MaxViewTasks == 6
MaxPosts == 3
MaxTicks == 2
MaxWrites == 2
NumHandlers == 2
MaxSubmissions == 3
MaxRaceTasks == 1

Callers == 1..NumCallers
Consumers == 1..NumConsumers
TaskIds == 1..MaxTasks

\* error values: nil and two distinct non-nil errors a task's Apply may return
Nil == "nil"
Errors == {"x", "y"}
Pending == "pending"
\* the error a given task's Apply() returns when it fails
ErrOf(t) == IF t % 2 = 0 THEN "x" ELSE "y"

\* holder of q.mutex
Free == <<"free", 0>>
ByEnqueue(p) == <<"enqueue", p>>
ByRunLoop(c) == <<"runLoop", c>>

VARIABLES
    \* ---- exec.TaskQueue
    queue,      \* q.queue: sequence of task ids
    running,    \* q.running
    mutex,      \* q.mutex: Free, ByEnqueue(p) or ByRunLoop(c)
    epc,        \* per caller: position inside Enqueue
    etask,      \* per caller: the task argument of the Enqueue in progress
    rpc,        \* per goroutine slot: position inside runLoop ("none" = no such goroutine)
    rtask,      \* per goroutine slot: local variable task
    rerr,       \* per goroutine slot: local variable err
    nextTask,   \* next fresh task identity handed to Enqueue
    appended,   \* history: task ids in the order line 30 appended them
    started,    \* history: task ids in the order Apply() was called
    applyRet,   \* history: what each task's Apply() returned
    handled,    \* history: the HandleError calls, <<task, err>>
    spawns,     \* history: number of "go q.runLoop()" executed
    \* ---- discord.Message and its SessionAPI collaborator
    variant,    \* "reply" (part_005) or "plain" (message.go)
    ChannelID,
    MessageID,
    RepliedToMessageID,
    CheckError, \* what api.Check() currently returns: TRUE = an error
    calls,      \* history: the calls made on the collaborator other than Check()
    last,       \* the most recent Message operation, what it returned, and what
                \* the last remote call it issued answered ("" if it issued none)
    created,    \* history: channel and remote id of the latest successful Create
    \* ---- exec.TaskQueueView, its refresher and the channel it posts to
    vMessageID, \* v.MessageID: the tracked status message, NoId for ""
    chanMsgs,   \* the ids of the messages in the channel, oldest first
    nextRemoteId, \* the id the remote assigns to the next message posted
    fpc,        \* per refresher: position inside Refresh
    fnum,       \* per refresher: numJobs as renderBody read it
    fbody,      \* per refresher: local variable body (a sequence of lines)
    fmsgs,      \* per refresher: local variable msgs (ids, at most one)
    fret,       \* per refresher: what the latest Refresh returned
    vissued,    \* per refresher: the remote calls of the current or latest Refresh
    vhist,      \* history: the messages the view sent that are in the channel
                \* and that the remote has not refused to delete
    \* ---- discord.FilePollMessage, its PollableFile and the Apply that drives them
    fpm,        \* TRUE once NewFilePollMessage has returned an object
    newArgs,    \* history: the arguments and outcome of the constructor call
    apc,        \* position of the goroutine running Apply
    spc,        \* position inside FilePollMessage.Stop ("none" = not in Stop)
    stopKind,   \* which call of Stop is running: "explicit" or "deferred"
    exitPath,   \* history: the exit path Apply took
    stops,      \* history: number of calls of Stop
    done,       \* fpm.done is closed
    panicked,   \* the program died of a panic
    dout,       \* Stop: what the remote delete answered, until Delete handles it
    tick,       \* ticker.C holds a tick (capacity 1)
    fires,      \* history: number of ticks the ticker produced
    file,       \* the progress file: [exists, data]
    writes,     \* history: number of writes and removals of the file
    ppc,        \* position of the polling goroutine inside PollableFile.Start
    ptext,      \* polling goroutine: local variable text
    pid,        \* polling goroutine: m.MessageID as validate() read it
    delivered,  \* history: the argument of the latest call of OnUpdate, if any
    ticksAfterDone, \* history: ticks received after done was closed
    launches,   \* history: polling goroutines FilePollMessage.Start launched
    perr,       \* err of NewFilePollMessage, which the callback assigns (part_003 line 28)
    \* ---- the registry of queues and views, and the submission handlers
    build,      \* "maps" (part_000) or "global" (cmd/slugbot/main.go)
    audioQueues,     \* channel id -> queue, NoQueue when absent
    audioQueueViews, \* channel id -> view, NoView when absent
    audioQueueView,  \* main.go line 71: the global view pointer, NoView for nil
    hpc,        \* per handler: position inside the submission handler
    hch,        \* per handler: message.ChannelID
    hq,         \* per handler: local variable audioQueue
    hok,        \* per handler: local variable ok
    submitted,  \* history: number of submissions handled or in progress
    madeQueues, \* history: <<channel, queue>> for every NewTaskQueue()
    madeViews,  \* history: <<queue, view>> for every NewTaskQueueView()
    loops,      \* history: the views a refresher goroutine was started for, in order
    enqueuedOn, \* history: <<channel, queue>> for every Enqueue of a submission
    \* ---- StableAudioCommand.Apply polling its progress file inline
    iversion,   \* "current" (stable-audio.go) or "earlier" (part_006): no download
    ipc,        \* position inside Apply
    iexit,      \* the exit path Apply returned on, "" before
    idone,      \* done is closed
    gpc,        \* position of the polling goroutine, "none" before it is started
    itick,      \* ticker.C holds a tick (capacity 1)
    ifires,     \* history: number of ticks the ticker produced
    iprog,      \* the progress file: [exists, data]
    icalls      \* the calls issued on the session for the initial message, in order

qvars == <<queue, running, mutex, epc, etask, rpc, rtask, rerr, nextTask,
           appended, started, applyRet, handled, spawns>>
mvars == <<variant, ChannelID, MessageID, RepliedToMessageID, CheckError, calls,
           last, created>>
vvars == <<vMessageID, chanMsgs, nextRemoteId, fpc, fnum, fbody, fmsgs, fret, vissued,
           vhist>>
pvars == <<fpm, newArgs, apc, spc, stopKind, exitPath, stops, done, panicked, dout,
           tick, fires, file, writes, ppc, ptext, pid, delivered, ticksAfterDone, launches, perr>>
rvars == <<build, audioQueues, audioQueueViews, audioQueueView, hpc, hch, hq, hok,
           submitted, madeQueues, madeViews, loops, enqueuedOn>>
ivars == <<iversion, ipc, iexit, idone, gpc, itick, ifires, iprog, icalls>>
vars == <<queue, running, mutex, epc, etask, rpc, rtask, rerr, nextTask,
          appended, started, applyRet, handled, spawns,
          variant, ChannelID, MessageID, RepliedToMessageID, CheckError, calls,
          last, created,
          vMessageID, chanMsgs, nextRemoteId, fpc, fnum, fbody, fmsgs, fret, vissued,
          vhist,
          fpm, newArgs, apc, spc, stopKind, exitPath, stops, done, panicked, dout,
          tick, fires, file, writes, ppc, ptext, pid, delivered, ticksAfterDone,
          launches, perr,
          build, audioQueues, audioQueueViews, audioQueueView, hpc, hch, hq, hok,
          submitted, madeQueues, madeViews, loops, enqueuedOn,
          iversion, ipc, iexit, idone, gpc, itick, ifires, iprog, icalls>>

\* what the steps of one component leave alone
notQueue == <<mvars, vvars, pvars, rvars, ivars>>
notMsg == <<qvars, vvars, pvars, rvars, ivars>>
notView == <<qvars, mvars, pvars, rvars, ivars>>
notPoll == <<qvars, vvars, rvars, ivars>>
notRegistry == <<qvars, mvars, vvars, pvars, ivars>>
notInline == <<qvars, mvars, vvars, pvars, rvars>>

\* what the last operation's exists() saw (the answer of the fetch) and
\* returned; here exists() was not called (the reply variant has none)
NotChecked == [fetch |-> "", found |-> FALSE, err |-> FALSE]
NoOp == [op |-> "none", text |-> "", err |-> FALSE, remote |-> "",
                                            exists |-> NotChecked]
NotCreated == [chan |-> "", id |-> ""]

\* ================================================================ TaskQueue

\* NewTaskQueue: empty queue, running false
NewTaskQueue ==
    /\ queue = <<>>
    /\ running = FALSE
    /\ mutex = Free

MsgIdle ==
    /\ variant = "reply"
    /\ ChannelID = ""
    /\ MessageID = ""
    /\ RepliedToMessageID = ""
    /\ CheckError = FALSE
    /\ calls = <<>>
    /\ last = NoOp
    /\ created = NotCreated

\* the empty string as a message id, and the id of the n-th message posted
NoId == <<>>
IdOf(n) == <<"id", n>>

\* the two refreshers a view can have: one periodic caller (part_000 lines
\* 34-47), or two when Refresh is called concurrently
Refreshers == {"a", "b"}

\* NewTaskQueueView (task_queue_view.go 19-21) on an empty channel, no Refresh yet
ViewIdle ==
    /\ vMessageID = NoId
    /\ chanMsgs = <<>>
    /\ nextRemoteId = 1
    /\ fpc = [r \in Refreshers |-> "idle"]
    /\ fnum = [r \in Refreshers |-> 0]
    /\ fbody = [r \in Refreshers |-> <<>>]
    /\ fmsgs = [r \in Refreshers |-> <<>>]
    /\ fret = [r \in Refreshers |-> Nil]
    /\ vissued = [r \in Refreshers |-> <<>>]
    /\ vhist = {}

\* a sequence of characters as the content of a file or of a message
NoText == <<>>
NoFile == [exists |-> FALSE, data |-> NoText]
NoArgs == [ck |-> FALSE, ch |-> "", r |-> "", tmp |-> "", err |-> FALSE]

\* identities of queues and views, and the absent map entry / nil pointer
QueueOf(n) == <<"queue", n>>
ViewOf(n) == <<"view", n>>
NoQueue == <<>>
NoView == <<>>

\* main.go line 70: var audioQueue = *exec.NewTaskQueue()
GlobalQueue == QueueOf(0)

\* the submission handlers discordgo runs concurrently, and the channels the
\* submissions come from
Handlers == 1..NumHandlers
GuildChannels == {"c1", "c2"}

\* part_000 lines 31-32: both maps empty, no handler running
RegIdle ==
    /\ build = "maps"
    /\ audioQueues = [ch \in GuildChannels |-> NoQueue]
    /\ audioQueueViews = [ch \in GuildChannels |-> NoView]
    /\ audioQueueView = NoView
    /\ hpc = [h \in Handlers |-> "idle"]
    /\ hch = [h \in Handlers |-> ""]
    /\ hq = [h \in Handlers |-> NoQueue]
    /\ hok = [h \in Handlers |-> FALSE]
    /\ submitted = 0
    /\ madeQueues = {}
    /\ madeViews = {}
    /\ loops = <<>>
    /\ enqueuedOn = {}

\* no Apply of the inline kind has been called
InlineIdle ==
    /\ iversion = "current"
    /\ ipc = "init"
    /\ iexit = ""
    /\ idone = FALSE
    /\ gpc = "none"
    /\ itick = FALSE
    /\ ifires = 0
    /\ iprog = NoFile
    /\ icalls = <<>>

\* no FilePollMessage has been constructed
PollIdle ==
    /\ fpm = FALSE
    /\ newArgs = NoArgs
    /\ apc = "init"
    /\ spc = "none"
    /\ stopKind = ""
    /\ exitPath = ""
    /\ stops = 0
    /\ done = FALSE
    /\ panicked = FALSE
    /\ dout = ""
    /\ tick = FALSE
    /\ fires = 0
    /\ file = NoFile
    /\ writes = 0
    /\ ppc = "none"
    /\ ptext = NoText
    /\ pid = ""
    /\ delivered = NoText
    /\ ticksAfterDone = 0
    /\ launches = 0
    /\ perr = Nil

\* no Enqueue in progress, no runLoop goroutine, empty histories
InitQueue ==
    /\ NewTaskQueue
    /\ epc = [p \in Callers |-> "idle"]
    /\ etask = [p \in Callers |-> 0]
    /\ rpc = [c \in Consumers |-> "none"]
    /\ rtask = [c \in Consumers |-> 0]
    /\ rerr = [c \in Consumers |-> Nil]
    /\ nextTask = 1
    /\ appended = <<>>
    /\ started = <<>>
    /\ applyRet = [t \in TaskIds |-> Pending]
    /\ handled = <<>>
    /\ spawns = 0

Init ==
    /\ InitQueue
    /\ MsgIdle
    /\ ViewIdle
    /\ PollIdle
    /\ RegIdle
    /\ InlineIdle

\* a caller invokes q.Enqueue(task) with a fresh task
EnqueueCall(p) ==
    /\ epc[p] = "idle"
    /\ nextTask <= MaxTasks
    /\ etask' = [etask EXCEPT ![p] = nextTask]
    /\ nextTask' = nextTask + 1
    /\ epc' = [epc EXCEPT ![p] = "lock"]
    /\ UNCHANGED <<queue, running, mutex, rpc, rtask, rerr, appended, started,
                   applyRet, handled, spawns>>
    /\ UNCHANGED notQueue

\* line 27: q.mutex.Lock()
EnqueueLock(p) ==
    /\ epc[p] = "lock"
    /\ mutex = Free
    /\ mutex' = ByEnqueue(p)
    /\ epc' = [epc EXCEPT ![p] = "append"]
    /\ UNCHANGED <<queue, running, etask, rpc, rtask, rerr, nextTask, appended,
                   started, applyRet, handled, spawns>>
    /\ UNCHANGED notQueue

\* variant: the task is put at the front of the slice
AppendTask_Prepend(q, t) == <<t>> \o q

\* line 30: append(q.queue, task)
AppendTask(q, t) == Append(q, t)

EnqueueAppend(p) ==
    /\ epc[p] = "append"
    /\ queue' = AppendTask(queue, etask[p])
    /\ appended' = Append(appended, etask[p])
    /\ epc' = [epc EXCEPT ![p] = "spawn"]
    /\ UNCHANGED <<running, mutex, etask, rpc, rtask, rerr, nextTask, started,
                   applyRet, handled, spawns>>
    /\ UNCHANGED notQueue

\* variant: the running flag is not consulted
ShouldSpawn_Always(r) == TRUE

\* line 31: if !q.running
ShouldSpawn(r) == ~r

\* variant: the flag is set but no goroutine is started
EnqueueSpawn_FlagOnly(p) ==
    /\ epc[p] = "spawn"
    /\ IF ShouldSpawn(running)
         THEN running' = TRUE /\ UNCHANGED <<rpc, spawns>>
         ELSE UNCHANGED <<rpc, running, spawns>>
    /\ epc' = [epc EXCEPT ![p] = "unlock"]
    /\ UNCHANGED <<queue, mutex, etask, rtask, rerr, nextTask, appended, started,
                   applyRet, handled>>
    /\ UNCHANGED notQueue

\* lines 31-34: if !q.running { q.running = true; go q.runLoop() }
EnqueueSpawn(p) ==
    /\ epc[p] = "spawn"
    /\ IF ShouldSpawn(running)
         THEN \E c \in Consumers :
                /\ rpc[c] = "none"
                /\ \A d \in Consumers : rpc[d] = "none" => c <= d
                /\ rpc' = [rpc EXCEPT ![c] = "lock"]
                /\ running' = TRUE
                /\ spawns' = spawns + 1
         ELSE UNCHANGED <<rpc, running, spawns>>
    /\ epc' = [epc EXCEPT ![p] = "unlock"]
    /\ UNCHANGED <<queue, mutex, etask, rtask, rerr, nextTask, appended, started,
                   applyRet, handled>>
    /\ UNCHANGED notQueue

\* line 28: defer q.mutex.Unlock(), then Enqueue returns (it has no result)
EnqueueUnlock(p) ==
    /\ epc[p] = "unlock"
    /\ mutex' = Free
    /\ epc' = [epc EXCEPT ![p] = "idle"]
    /\ etask' = [etask EXCEPT ![p] = 0]
    /\ UNCHANGED <<queue, running, rpc, rtask, rerr, nextTask, appended,
                   started, applyRet, handled, spawns>>
    /\ UNCHANGED notQueue

\* line 39: q.mutex.Lock()
RunLock(c) ==
    /\ rpc[c] = "lock"
    /\ mutex = Free
    /\ mutex' = ByRunLoop(c)
    /\ rpc' = [rpc EXCEPT ![c] = "check"]
    /\ UNCHANGED <<queue, running, epc, etask, rtask, rerr, nextTask, appended,
                   started, applyRet, handled, spawns>>
    /\ UNCHANGED notQueue

\* variant: the flag is left as it was
RunningAfterEmpty_Keep(r) == r

\* line 41: q.running = false
RunningAfterEmpty(r) == FALSE

\* lines 40-41: if len(q.queue) == 0 { q.running = false
RunEmpty(c) ==
    /\ rpc[c] = "check"
    /\ Len(queue) = 0
    /\ running' = RunningAfterEmpty(running)
    /\ rpc' = [rpc EXCEPT ![c] = "unlock_exit"]
    /\ UNCHANGED <<queue, mutex, epc, etask, rtask, rerr, nextTask, appended,
                   started, applyRet, handled, spawns>>
    /\ UNCHANGED notQueue

\* variant: the consumer returns without unlocking
RunExit_KeepsMutex(c) ==
    /\ rpc[c] = "unlock_exit"
    /\ rpc' = [rpc EXCEPT ![c] = "none"]
    /\ UNCHANGED <<queue, running, mutex, epc, etask, rtask, rerr, nextTask, appended,
                   started, applyRet, handled, spawns>>
    /\ UNCHANGED notQueue

\* lines 42-43: q.mutex.Unlock(); return  -- the goroutine ends
RunExit(c) ==
    /\ rpc[c] = "unlock_exit"
    /\ mutex' = Free
    /\ rpc' = [rpc EXCEPT ![c] = "none"]
    /\ UNCHANGED <<queue, running, epc, etask, rtask, rerr, nextTask, appended,
                   started, applyRet, handled, spawns>>
    /\ UNCHANGED notQueue

\* variant: the task stays in the slice while it is executed
PopFront_Peek(q) == [task |-> q[1], rest |-> q]

\* variant: the slice is cut one element too far
PopFront_DropsTwo(q) == [task |-> q[1], rest |-> SubSeq(q, 3, Len(q))]

\* lines 45-46: task := q.queue[0]; q.queue = q.queue[1:]
PopFront(q) == [task |-> q[1], rest |-> SubSeq(q, 2, Len(q))]

RunPop(c) ==
    /\ rpc[c] = "check"
    /\ Len(queue) # 0
    /\ rtask' = [rtask EXCEPT ![c] = PopFront(queue).task]
    /\ queue' = PopFront(queue).rest
    /\ rpc' = [rpc EXCEPT ![c] = "unlock"]
    /\ UNCHANGED <<running, mutex, epc, etask, rerr, nextTask, appended, started,
                   applyRet, handled, spawns>>
    /\ UNCHANGED notQueue

\* variant: the flag is cleared whenever the consumer releases the mutex
RunUnlock_ClearsRunning(c) ==
    /\ rpc[c] = "unlock"
    /\ mutex' = Free
    /\ running' = FALSE
    /\ rpc' = [rpc EXCEPT ![c] = "apply"]
    /\ UNCHANGED <<queue, epc, etask, rtask, rerr, nextTask, appended,
                   started, applyRet, handled, spawns>>
    /\ UNCHANGED notQueue

\* variant: the mutex is kept while the task runs
RunUnlock_KeepsMutex(c) ==
    /\ rpc[c] = "unlock"
    /\ rpc' = [rpc EXCEPT ![c] = "apply"]
    /\ UNCHANGED <<queue, running, mutex, epc, etask, rtask, rerr, nextTask, appended,
                   started, applyRet, handled, spawns>>
    /\ UNCHANGED notQueue

\* line 47: q.mutex.Unlock()
RunUnlock(c) ==
    /\ rpc[c] = "unlock"
    /\ mutex' = Free
    /\ rpc' = [rpc EXCEPT ![c] = "apply"]
    /\ UNCHANGED <<queue, running, epc, etask, rtask, rerr, nextTask, appended,
                   started, applyRet, handled, spawns>>
    /\ UNCHANGED notQueue

\* line 49: task.Apply() is called
ApplyCall(c) ==
    /\ rpc[c] = "apply"
    /\ started' = Append(started, rtask[c])
    /\ rpc' = [rpc EXCEPT ![c] = "applying"]
    /\ UNCHANGED <<queue, running, mutex, epc, etask, rtask, rerr, nextTask,
                   appended, applyRet, handled, spawns>>
    /\ UNCHANGED notQueue

\* variant: the error is dropped, HandleError is not called
AfterApply_SkipsHandler(e) == "lock"

\* variant: the error test is inverted
AfterApply_Inverted(e) == IF e = Nil THEN "handle" ELSE "lock"

\* line 49: if err := ...; err != nil -- where runLoop goes after Apply returned e
AfterApply(e) == IF e # Nil THEN "handle" ELSE "lock"

\* line 49: task.Apply() returns e
ApplyReturn(c) ==
    /\ rpc[c] = "applying"
    /\ \E e \in {Nil, ErrOf(rtask[c])} :
         /\ applyRet' = [applyRet EXCEPT ![rtask[c]] = e]
         /\ rpc' = [rpc EXCEPT ![c] = AfterApply(e)]
         /\ IF AfterApply(e) = "handle"
              THEN rerr' = [rerr EXCEPT ![c] = e] /\ UNCHANGED rtask
              ELSE rerr' = [rerr EXCEPT ![c] = Nil] /\ rtask' = [rtask EXCEPT ![c] = 0]
    /\ UNCHANGED <<queue, running, mutex, epc, etask, nextTask, appended,
                   started, handled, spawns>>
    /\ UNCHANGED notQueue

\* line 50: the argument of task.HandleError(err)
HandleErrorArg(e) == e

\* line 50: task.HandleError(err) is called (Command.HandleError, command.go 17-19)
HandleErrorCall(c) ==
    /\ rpc[c] = "handle"
    /\ handled' = Append(handled, <<rtask[c], HandleErrorArg(rerr[c])>>)
    /\ rpc' = [rpc EXCEPT ![c] = "handling"]
    /\ UNCHANGED <<queue, running, mutex, epc, etask, rtask, rerr, nextTask,
                   appended, started, applyRet, spawns>>
    /\ UNCHANGED notQueue

\* variant: runLoop returns after reporting a failure
HandleErrorReturn_Exit(c) ==
    /\ rpc[c] = "handling"
    /\ rpc' = [rpc EXCEPT ![c] = "none"]
    /\ rtask' = [rtask EXCEPT ![c] = 0]
    /\ rerr' = [rerr EXCEPT ![c] = Nil]
    /\ UNCHANGED <<queue, running, mutex, epc, etask, nextTask,
                   appended, started, applyRet, handled, spawns>>
    /\ UNCHANGED notQueue

\* line 50-52: HandleError returns; the for loop iterates
HandleErrorReturn(c) ==
    /\ rpc[c] = "handling"
    /\ rpc' = [rpc EXCEPT ![c] = "lock"]
    /\ rtask' = [rtask EXCEPT ![c] = 0]
    /\ rerr' = [rerr EXCEPT ![c] = Nil]
    /\ UNCHANGED <<queue, running, mutex, epc, etask, nextTask,
                   appended, started, applyRet, handled, spawns>>
    /\ UNCHANGED notQueue

\* TaskQueue.Enqueue, statement by statement
Enqueue(p) ==
    \/ EnqueueLock(p)
    \/ EnqueueAppend(p)
    \/ EnqueueSpawn(p)
    \/ EnqueueUnlock(p)

\* TaskQueue.runLoop, statement by statement
runLoop(c) ==
    \/ RunLock(c)
    \/ RunEmpty(c)
    \/ RunExit(c)
    \/ RunPop(c)
    \/ RunUnlock(c)
    \/ ApplyCall(c)
    \/ ApplyReturn(c)
    \/ HandleErrorCall(c)
    \/ HandleErrorReturn(c)

Next ==
    \/ \E p \in Callers : EnqueueCall(p)
    \/ \E p \in Callers : EnqueueLock(p)
    \/ \E p \in Callers : EnqueueAppend(p)
    \/ \E p \in Callers : EnqueueSpawn(p)
    \/ \E p \in Callers : EnqueueUnlock(p)
    \/ \E c \in Consumers : RunLock(c)
    \/ \E c \in Consumers : RunEmpty(c)
    \/ \E c \in Consumers : RunExit(c)
    \/ \E c \in Consumers : RunPop(c)
    \/ \E c \in Consumers : RunUnlock(c)
    \/ \E c \in Consumers : ApplyCall(c)
    \/ \E c \in Consumers : ApplyReturn(c)
    \/ \E c \in Consumers : HandleErrorCall(c)
    \/ \E c \in Consumers : HandleErrorReturn(c)

Spec == Init /\ [][Next]_vars

\* Go schedules every runnable goroutine, and every Apply/HandleError returns
FairSpec ==
    /\ Spec
    /\ \A p \in Callers : WF_vars(Enqueue(p))
    /\ \A c \in Consumers : WF_vars(runLoop(c))


\* ================================================================== Message

Variants == {"reply", "plain"}
ChannelIds == {"c1"}
ReplyIds == {"r1"}
RemoteIds == {"m1", "m2"}
Texts == {"hi", "bye"}
\* an id a test writes into the exported field (message_test.go:120)
PresetId == "abcde"

\* outcomes of the collaborator's calls
SendOutcomes == RemoteIds \cup {"error"}
EditOutcomes == {"ok", "error"}
DeleteOutcomes == {"ok", "notfound", "error"}
FetchOutcomes == {"found", "notfound", "error"}

\* one recorded call on the SessionAPI (fakeAPI.data.calls)
Call(fn, ch, id, content, reply) ==
    [fn |-> fn, channel |-> ch, id |-> id, content |-> content, reply |-> reply]

\* variant: the reply-target id is not checked
NewMessage_NoReplyCheck(v, ck, ch, r) ==
    IF ck THEN [err |-> TRUE, ChannelID |-> "", RepliedToMessageID |-> ""]
    ELSE IF ch = "" THEN [err |-> TRUE, ChannelID |-> "", RepliedToMessageID |-> ""]
    ELSE [err |-> FALSE, ChannelID |-> ch,
          RepliedToMessageID |-> IF v = "reply" THEN r ELSE ""]

\* NewMessage: part_005 lines 16-32 ("reply"), message.go lines 15-27 ("plain")
NewMessage(v, ck, ch, r) ==
    IF ck THEN [err |-> TRUE, ChannelID |-> "", RepliedToMessageID |-> ""]
    ELSE IF ch = "" THEN [err |-> TRUE, ChannelID |-> "", RepliedToMessageID |-> ""]
    ELSE IF v = "reply" /\ r = "" THEN [err |-> TRUE, ChannelID |-> "", RepliedToMessageID |-> ""]
    ELSE [err |-> FALSE, ChannelID |-> ch,
          RepliedToMessageID |-> IF v = "reply" THEN r ELSE ""]

\* the Message a successful NewMessage returned, before any call on it
InitMsg ==
    /\ InitQueue
    /\ variant \in Variants
    /\ \E ck \in BOOLEAN, ch \in ChannelIds \cup {""}, r \in ReplyIds \cup {""} :
         LET m == NewMessage(variant, ck, ch, r) IN
           /\ ~m.err
           /\ CheckError = ck
           /\ ChannelID = m.ChannelID
           /\ RepliedToMessageID = m.RepliedToMessageID
    /\ MessageID = ""
    /\ calls = <<>>
    /\ last = NoOp
    /\ created = NotCreated
    /\ ViewIdle
    /\ PollIdle
    /\ RegIdle
    /\ InlineIdle

\* variant: the "message ID is already set" test is missing
CreateValidation_NoIdCheck(v, ck, ch, id, r) ==
    IF ck THEN "session"
    ELSE IF ch = "" THEN "channel"
    ELSE IF v = "reply" /\ r = "" THEN "reply"
    ELSE Nil

\* Create's precondition checks: part_005 lines 36-47, message.go lines 31-39
CreateValidation(v, ck, ch, id, r) ==
    IF ck THEN "session"
    ELSE IF ch = "" THEN "channel"
    ELSE IF id # "" THEN "already set"
    ELSE IF v = "reply" /\ r = "" THEN "reply"
    ELSE Nil

\* variant: the "empty message ID" test is missing
validate_NoIdCheck(ck, ch, id) ==
    IF ck THEN "uninitialized session"
    ELSE IF ch = "" THEN "empty channel ID"
    ELSE Nil

\* Message.validate: part_005 lines 94-106
validate(ck, ch, id) ==
    IF ck THEN "uninitialized session"
    ELSE IF ch = "" THEN "empty channel ID"
    ELSE IF id = "" THEN "empty message ID"
    ELSE Nil

\* variant: a fetch that succeeds is taken for a message that is absent
exists_FoundIsAbsent(ck, ch, fetch) ==
    IF ck THEN [fetched |-> FALSE, found |-> FALSE, err |-> TRUE]
    ELSE IF ch = "" THEN [fetched |-> FALSE, found |-> FALSE, err |-> FALSE]
    ELSE IF fetch = "error" THEN [fetched |-> TRUE, found |-> FALSE, err |-> TRUE]
    ELSE [fetched |-> TRUE, found |-> FALSE, err |-> FALSE]

\* Message.exists, message.go lines 108-125, given the outcome of the fetch:
\* the fetch is skipped when the session check fails or the channel id is empty
exists(ck, ch, fetch) ==
    IF ck THEN [fetched |-> FALSE, found |-> FALSE, err |-> TRUE]
    ELSE IF ch = "" THEN [fetched |-> FALSE, found |-> FALSE, err |-> FALSE]
    ELSE IF fetch = "notfound" THEN [fetched |-> TRUE, found |-> FALSE, err |-> FALSE]
    ELSE IF fetch = "error" THEN [fetched |-> TRUE, found |-> FALSE, err |-> TRUE]
    ELSE [fetched |-> TRUE, found |-> TRUE, err |-> FALSE]

\* part_005 line 49: the send-reply Create issues
SendReplyCall(ch, text, r) == Call("ChannelMessageSendReply", ch, "", text, r)

\* message.go line 48: the send Create issues
SendCall(ch, text) == Call("ChannelMessageSend", ch, "", text, "")

\* message.go line 117: the fetch exists() issues
FetchCall(ch, id) == Call("ChannelMessage", ch, id, "", "")

\* variant: the edit is addressed to the message replied to
EditCall_ReplyTarget(ch, id, r, text) == Call("ChannelMessageEdit", ch, r, text, "")

\* part_005 line 65: the edit Update issues
EditCall(ch, id, r, text) == Call("ChannelMessageEdit", ch, id, text, "")

\* part_005 line 79: the delete Delete issues
DeleteCall(ch, id) == Call("ChannelMessageDelete", ch, id, "", "")

\* the outcome of the send as Create handles it (lines 49-56): error, or store the id
CreateFinish(text, sendCalls, out, ex) ==
    /\ calls' = calls \o sendCalls
    /\ IF out = "error"
         THEN /\ last' = [op |-> "Create", text |-> text, err |-> TRUE, remote |-> out,
                          exists |-> ex]
              /\ UNCHANGED <<MessageID, created>>
         ELSE /\ MessageID' = out
              /\ created' = [chan |-> ChannelID, id |-> out]
              /\ last' = [op |-> "Create", text |-> text, err |-> FALSE, remote |-> out,
                          exists |-> ex]

\* Message.Create(text): part_005 lines 35-57 and message.go lines 30-57,
\* as the goroutine that calls it executes it
MsgCreate(text) ==
    /\ Len(calls) + 2 <= MaxCalls
    /\ IF CreateValidation(variant, CheckError, ChannelID, MessageID, RepliedToMessageID) # Nil
         THEN /\ last' = [op |-> "Create", text |-> text, err |-> TRUE, remote |-> "",
                                            exists |-> NotChecked]
              /\ UNCHANGED <<calls, MessageID, created>>
         ELSE IF variant = "reply"
           THEN \E out \in SendOutcomes :
                  CreateFinish(text, <<SendReplyCall(ChannelID, text, RepliedToMessageID)>>, out,
                               NotChecked)
           ELSE \E fetch \in FetchOutcomes :
                  LET ex == exists(CheckError, ChannelID, fetch)
                      fetchCalls == IF ex.fetched THEN <<FetchCall(ChannelID, MessageID)>>
                                    ELSE <<>>
                      seen == [fetch |-> IF ex.fetched THEN fetch ELSE "",
                               found |-> ex.found, err |-> ex.err]
                  IN IF ex.err \/ ex.found
                       THEN /\ calls' = calls \o fetchCalls
                            /\ last' = [op |-> "Create", text |-> text, err |-> TRUE,
                                        remote |-> IF ex.fetched THEN fetch ELSE "",
                                        exists |-> seen]
                            /\ UNCHANGED <<MessageID, created>>
                       ELSE \E out \in SendOutcomes :
                              CreateFinish(text, fetchCalls \o <<SendCall(ChannelID, text)>>, out,
                                           seen)

\* a call of Create on a Message nothing else is using
Create(text) ==
    /\ MsgCreate(text)
    /\ UNCHANGED <<variant, ChannelID, RepliedToMessageID, CheckError>>
    /\ UNCHANGED notMsg

\* variant: a failed edit makes Update forget the message
Update_ForgetsOnError(text) ==
    /\ Len(calls) + 1 <= MaxCalls
    /\ IF validate(CheckError, ChannelID, MessageID) # Nil
         THEN /\ last' = [op |-> "Update", text |-> text, err |-> TRUE, remote |-> "",
                                            exists |-> NotChecked]
              /\ UNCHANGED <<calls, MessageID>>
         ELSE \E out \in EditOutcomes :
                /\ calls' = Append(calls, EditCall(ChannelID, MessageID, RepliedToMessageID, text))
                /\ last' = [op |-> "Update", text |-> text, err |-> (out = "error"),
                            remote |-> out, exists |-> NotChecked]
                /\ MessageID' = IF out = "error" THEN "" ELSE MessageID
    /\ UNCHANGED <<variant, ChannelID, RepliedToMessageID, CheckError, created>>
    /\ UNCHANGED notMsg

\* Message.Update(text): part_005 lines 60-71
Update(text) ==
    /\ Len(calls) + 1 <= MaxCalls
    /\ IF validate(CheckError, ChannelID, MessageID) # Nil
         THEN /\ last' = [op |-> "Update", text |-> text, err |-> TRUE, remote |-> "",
                                            exists |-> NotChecked]
              /\ UNCHANGED calls
         ELSE \E out \in EditOutcomes :
                /\ calls' = Append(calls, EditCall(ChannelID, MessageID, RepliedToMessageID, text))
                /\ last' = [op |-> "Update", text |-> text, err |-> (out = "error"),
                            remote |-> out, exists |-> NotChecked]
    /\ UNCHANGED <<variant, ChannelID, MessageID, RepliedToMessageID, CheckError, created>>
    /\ UNCHANGED notMsg

\* variant: only a successful remote delete clears the id
DeleteClearsID_OnlyOk(out) == out = "ok"

\* variant: the id is cleared whatever the remote answered
DeleteClearsID_Always(out) == TRUE

\* part_005 lines 80-90: the id is cleared on ErrUnknownMessage and on success
DeleteClearsID(out) == out \in {"ok", "notfound"}

\* Message.Delete(): part_005 lines 74-91
Delete ==
    /\ Len(calls) + 1 <= MaxCalls
    /\ IF validate(CheckError, ChannelID, MessageID) # Nil
         THEN /\ last' = [op |-> "Delete", text |-> "", err |-> TRUE, remote |-> "",
                                            exists |-> NotChecked]
              /\ UNCHANGED <<calls, MessageID>>
         ELSE \E out \in DeleteOutcomes :
                /\ calls' = Append(calls, DeleteCall(ChannelID, MessageID))
                /\ IF DeleteClearsID(out)
                     THEN /\ MessageID' = ""
                          /\ last' = [op |-> "Delete", text |-> "", err |-> FALSE,
                                      remote |-> out, exists |-> NotChecked]
                     ELSE /\ UNCHANGED MessageID
                          /\ last' = [op |-> "Delete", text |-> "", err |-> TRUE,
                                      remote |-> out, exists |-> NotChecked]
    /\ UNCHANGED <<variant, ChannelID, RepliedToMessageID, CheckError, created>>
    /\ UNCHANGED notMsg

\* the collaborator's Check() starts or stops failing (message_test.go:98)
SetCheckError ==
    /\ CheckError' = ~CheckError
    /\ UNCHANGED <<variant, ChannelID, MessageID, RepliedToMessageID, calls, last, created>>
    /\ UNCHANGED notMsg

\* message_test.go:109  m.ChannelID = ""
WriteChannelID ==
    /\ ChannelID # ""
    /\ ChannelID' = ""
    /\ UNCHANGED <<variant, MessageID, RepliedToMessageID, CheckError, calls, last, created>>
    /\ UNCHANGED notMsg

\* message_test.go:120  m.MessageID = "abcde"  and :215  m.MessageID = ""
WriteMessageID ==
    /\ \E id \in {PresetId, ""} :
         /\ id # MessageID
         /\ MessageID' = id
    /\ UNCHANGED <<variant, ChannelID, RepliedToMessageID, CheckError, calls, last, created>>
    /\ UNCHANGED notMsg

\* message_test.go:131  m.RepliedToMessageID = ""
WriteRepliedToMessageID ==
    /\ variant = "reply"
    /\ RepliedToMessageID # ""
    /\ RepliedToMessageID' = ""
    /\ UNCHANGED <<variant, ChannelID, MessageID, CheckError, calls, last, created>>
    /\ UNCHANGED notMsg

NextMsg ==
    \/ \E text \in Texts : Create(text)
    \/ \E text \in Texts : Update(text)
    \/ Delete
    \/ SetCheckError

SpecMsg == InitMsg /\ [][NextMsg]_vars

NextMsgFields ==
    \/ \E text \in Texts : Create(text)
    \/ \E text \in Texts : Update(text)
    \/ Delete
    \/ SetCheckError
    \/ WriteChannelID
    \/ WriteMessageID
    \/ WriteRepliedToMessageID

SpecMsgFields == InitMsg /\ [][NextMsgFields]_vars

\* ============================================================ TaskQueueView

\* task_queue_view.go line 10
MAX_JOBS_IN_VIEW == 5
promptMaxLen == 40
promptCellWidth == promptMaxLen + 3

Min(a, b) == IF a < b THEN a ELSE b

\* the dynamic type %T prints for a task: both command types are enqueued on
\* the audio queue (cmd/slugbot/main.go lines 176 and 190)
StableAudioCommand ==
    <<"*", "a", "u", "d", "i", "o", ".", "S", "t", "a", "b", "l",
      "e", "A", "u", "d", "i", "o", "C", "o", "m", "m", "a", "n",
      "d">>
StableAudioWithConfigCommand ==
    <<"*", "a", "u", "d", "i", "o", ".", "S", "t", "a", "b", "l",
      "e", "A", "u", "d", "i", "o", "W", "i", "t", "h", "C", "o",
      "n", "f", "i", "g", "C", "o", "m", "m", "a", "n", "d">>

TypeOf(t) ==
    IF t % 2 = 1 THEN StableAudioCommand
    ELSE StableAudioWithConfigCommand

Repeat(c, n) == [i \in 1..n |-> c]

\* the text of the submission with " --small" appended (main.go 160-163); the
\* command with a configuration is given no prompt (main.go 181-182)
Small == <<" ", "-", "-", "s", "m", "a", "l", "l">>
Prompt(t) ==
    IF t % 2 = 0 THEN NoText
    ELSE IF t % 4 = 1 THEN <<"c", "a", "t">> \o Small
    ELSE Repeat("x", promptMaxLen) \o Small

\* helpers/discord.go 323-330: a cell of promptCellWidth characters
formatCell(s) ==
    IF Len(s) > promptCellWidth
      THEN SubSeq(s, 1, promptMaxLen) \o <<".", ".", ".">>
      ELSE s \o Repeat(" ", promptCellWidth - Len(s))

\* line 73: fmt.Sprintf("%d) %T", i+1, task), i counted from 1 here
EntryLine(i, t) == <<"entry", i, TypeOf(t)>>

\* line 78: fmt.Sprintf("...and %d more...", numRemainingJobs)
MoreLine(k) == <<"more", k>>

\* variant: the suffix is also added for exactly MAX_JOBS_IN_VIEW jobs
ShowMore_AtLimit(numJobs) == numJobs >= MAX_JOBS_IN_VIEW

\* line 76: if numJobs > MAX_JOBS_IN_VIEW
ShowMore(numJobs) == numJobs > MAX_JOBS_IN_VIEW

\* variant: an empty queue is rendered as a placeholder line
renderBody_Placeholder(q) ==
    IF Len(q) < 1 THEN << <<"empty">> >>
    ELSE [i \in 1..Min(Len(q), MAX_JOBS_IN_VIEW) |-> EntryLine(i, q[i])]

\* TaskQueueView.renderBody, lines 59-82, on the queue it reads under the
\* mutex; the body is the sequence of lines that strings.Join glues with "\n"
\* (no lines = the empty string)
renderBody(q) ==
    LET numJobs == Len(q)
        numJobsToDisplay == Min(numJobs, MAX_JOBS_IN_VIEW)
        lines == [i \in 1..numJobsToDisplay |-> EntryLine(i, q[i])]
    IN IF numJobs < 1 THEN <<>>
       ELSE IF ShowMore(numJobs)
              THEN Append(lines, MoreLine(numJobs - MAX_JOBS_IN_VIEW))
              ELSE lines

\* one recorded call on the discordgo session
VCall(fn, id, body) == [fn |-> fn, id |-> id, body |-> body]

Remove(seq, id) == SelectSeq(seq, LAMBDA x : x # id)
InChannel(id) == \E i \in 1..Len(chanMsgs) : chanMsgs[i] = id
RemoteOutcomes == {"ok", "error"}

\* Session.ChannelMessages(channel, 1, ...): the most recent message, if any
LatestMessages == IF chanMsgs = <<>> THEN <<>> ELSE <<chanMsgs[Len(chanMsgs)]>>

\* history: a delete that succeeds takes the message out of the channel, and
\* a message the remote refuses to delete is no longer followed
DeleteAnswered(h, id, out) == IF out = "ok" \/ InChannel(id) THEN h \ {id} ELSE h

\* the remote's side of ChannelMessageDelete(id) answering out: a delete
\* succeeds only on a message that exists, and removes it
RemoteDelete(id, out) ==
    /\ out = "ok" => InChannel(id)
    /\ chanMsgs' = IF out = "ok" THEN Remove(chanMsgs, id) ELSE chanMsgs

\* Enqueue (task_queue.go 26-35) as one step: its body runs under the mutex
ViewEnqueue ==
    /\ mutex = Free
    /\ nextTask <= MaxViewTasks
    /\ queue' = AppendTask(queue, nextTask)
    /\ nextTask' = nextTask + 1
    /\ IF ShouldSpawn(running)
         THEN /\ running' = TRUE
              /\ rpc' = [rpc EXCEPT ![1] = "lock"]
         ELSE UNCHANGED <<running, rpc>>
    /\ UNCHANGED <<mutex, epc, etask, rtask, rerr, appended, started, applyRet,
                   handled, spawns>>
    /\ UNCHANGED notQueue

\* runLoop's critical section (task_queue.go 39-47) as one step, up to the
\* call of Apply or the return
ViewTake ==
    /\ mutex = Free
    /\ \E c \in Consumers :
         /\ rpc[c] = "lock"
         /\ IF Len(queue) = 0
              THEN /\ running' = RunningAfterEmpty(running)
                   /\ rpc' = [rpc EXCEPT ![c] = "none"]
                   /\ UNCHANGED <<queue, rtask>>
              ELSE /\ rtask' = [rtask EXCEPT ![c] = PopFront(queue).task]
                   /\ queue' = PopFront(queue).rest
                   /\ rpc' = [rpc EXCEPT ![c] = "applying"]
                   /\ UNCHANGED running
    /\ UNCHANGED <<mutex, epc, etask, rerr, nextTask, appended, started, applyRet,
                   handled, spawns>>
    /\ UNCHANGED notQueue

\* Apply (and HandleError) return, task_queue.go 49-52; the loop iterates
ViewTaskDone ==
    /\ \E c \in Consumers :
         /\ rpc[c] = "applying"
         /\ rpc' = [rpc EXCEPT ![c] = "lock"]
         /\ rtask' = [rtask EXCEPT ![c] = 0]
    /\ UNCHANGED <<queue, running, mutex, epc, etask, rerr, nextTask, appended,
                   started, applyRet, handled, spawns>>
    /\ UNCHANGED notQueue

\* somebody else posts a message in the channel
UserPost ==
    /\ nextRemoteId <= MaxPosts
    /\ chanMsgs' = Append(chanMsgs, IdOf(nextRemoteId))
    /\ nextRemoteId' = nextRemoteId + 1
    /\ UNCHANGED <<vMessageID, fpc, fnum, fbody, fmsgs, fret, vissued>>
    /\ UNCHANGED vhist
    /\ UNCHANGED notView

\* variant: the loop ends when Refresh returned an error
LoopContinues_StopsOnError(ret) == ret # "error"

\* UpdateQueueViewCallback, main.go 81-85 (part_000 42-46): the error Refresh
\* returned is logged and `for range ticker.C` goes on
LoopContinues(ret) == TRUE

\* Refresh is called; line 24: body := v.renderBody()
RefreshRender(r) ==
    /\ fpc[r] = "idle"
    /\ LoopContinues(fret[r])
    /\ mutex = Free
    /\ fnum' = [fnum EXCEPT ![r] = Len(queue)]
    /\ fbody' = [fbody EXCEPT ![r] = renderBody(queue)]
    /\ fmsgs' = [fmsgs EXCEPT ![r] = <<>>]
    /\ fret' = [fret EXCEPT ![r] = Pending]
    /\ vissued' = [vissued EXCEPT ![r] = <<>>]
    /\ fpc' = [fpc EXCEPT ![r] = "rendered"]
    /\ UNCHANGED <<vMessageID, chanMsgs, nextRemoteId>>
    /\ UNCHANGED vhist
    /\ UNCHANGED notView

\* lines 27-33: the body is empty: delete the tracked message, forget it, return nil
RefreshEmpty(r) ==
    /\ fpc[r] = "rendered"
    /\ fbody[r] = <<>>
    /\ IF vMessageID # NoId
         THEN \E out \in RemoteOutcomes :
                /\ RemoteDelete(vMessageID, out)
                /\ vissued' = [vissued EXCEPT ![r] =
                      Append(@, VCall("ChannelMessageDelete", vMessageID, <<>>))]
                /\ vMessageID' = NoId
                /\ vhist' = DeleteAnswered(vhist, vMessageID, out)
         ELSE UNCHANGED <<chanMsgs, vissued, vMessageID, vhist>>
    /\ fret' = [fret EXCEPT ![r] = Nil]
    /\ fpc' = [fpc EXCEPT ![r] = "idle"]
    /\ UNCHANGED <<nextRemoteId, fnum, fbody, fmsgs>>
    /\ UNCHANGED notView

\* lines 36-39: fetch the most recent message of the channel
RefreshFetch(r) ==
    /\ fpc[r] = "rendered"
    /\ fbody[r] # <<>>
    /\ vissued' = [vissued EXCEPT ![r] = Append(@, VCall("ChannelMessages", NoId, <<>>))]
    /\ \E out \in RemoteOutcomes :
         IF out = "error"
           THEN /\ fret' = [fret EXCEPT ![r] = "error"]
                /\ fpc' = [fpc EXCEPT ![r] = "idle"]
                /\ fbody' = [fbody EXCEPT ![r] = <<>>]
                /\ UNCHANGED fmsgs
           ELSE /\ fmsgs' = [fmsgs EXCEPT ![r] = LatestMessages]
                /\ fpc' = [fpc EXCEPT ![r] = "fetched"]
                /\ UNCHANGED <<fret, fbody>>
    /\ UNCHANGED <<vMessageID, chanMsgs, nextRemoteId, fnum>>
    /\ UNCHANGED vhist
    /\ UNCHANGED notView

\* variant: any tracked message is edited, the latest or not
StillLatest_AnyTracked(msgs, tracked) == tracked # NoId

\* line 42: len(msgs) > 0 && msgs[0].ID == v.MessageID
StillLatest(msgs, tracked) == Len(msgs) > 0 /\ msgs[1] = tracked

\* lines 42-45: the tracked message is still the most recent one: edit it
RefreshEdit(r) ==
    /\ fpc[r] = "fetched"
    /\ StillLatest(fmsgs[r], vMessageID)
    /\ vissued' = [vissued EXCEPT ![r] =
          Append(@, VCall("ChannelMessageEdit", vMessageID, fbody[r]))]
    /\ \E out \in RemoteOutcomes :
         /\ out = "ok" => InChannel(vMessageID)
         /\ fret' = [fret EXCEPT ![r] = IF out = "ok" THEN Nil ELSE "error"]
    /\ fpc' = [fpc EXCEPT ![r] = "idle"]
    /\ fbody' = [fbody EXCEPT ![r] = <<>>]
    /\ fmsgs' = [fmsgs EXCEPT ![r] = <<>>]
    /\ UNCHANGED <<vMessageID, chanMsgs, nextRemoteId, fnum>>
    /\ UNCHANGED vhist
    /\ UNCHANGED notView

\* variant: the old status message is not deleted before the new one is sent
RefreshDeleteOld_Skips(r) ==
    /\ fpc[r] = "fetched"
    /\ ~StillLatest(fmsgs[r], vMessageID)
    /\ fpc' = [fpc EXCEPT ![r] = "send"]
    /\ fmsgs' = [fmsgs EXCEPT ![r] = <<>>]
    /\ UNCHANGED <<vMessageID, chanMsgs, nextRemoteId, fnum, fbody, fret, vissued, vhist>>
    /\ UNCHANGED notView

\* lines 48-50: otherwise delete the old message, if one is tracked
RefreshDeleteOld(r) ==
    /\ fpc[r] = "fetched"
    /\ ~StillLatest(fmsgs[r], vMessageID)
    /\ IF vMessageID # NoId
         THEN \E out \in RemoteOutcomes :
                /\ RemoteDelete(vMessageID, out)
                /\ vissued' = [vissued EXCEPT ![r] =
                      Append(@, VCall("ChannelMessageDelete", vMessageID, <<>>))]
                /\ vhist' = DeleteAnswered(vhist, vMessageID, out)
         ELSE UNCHANGED <<chanMsgs, vissued, vhist>>
    /\ fpc' = [fpc EXCEPT ![r] = "send"]
    /\ fmsgs' = [fmsgs EXCEPT ![r] = <<>>]
    /\ UNCHANGED <<vMessageID, nextRemoteId, fnum, fbody, fret>>
    /\ UNCHANGED notView

\* lines 51-56: send the body as a new message and track its id
RefreshSend(r) ==
    /\ fpc[r] = "send"
    /\ vissued' = [vissued EXCEPT ![r] =
          Append(@, VCall("ChannelMessageSend", NoId, fbody[r]))]
    /\ \E out \in RemoteOutcomes :
         IF out = "ok"
           THEN /\ nextRemoteId <= MaxPosts
                /\ chanMsgs' = Append(chanMsgs, IdOf(nextRemoteId))
                /\ nextRemoteId' = nextRemoteId + 1
                /\ vMessageID' = IdOf(nextRemoteId)
                /\ vhist' = vhist \cup {IdOf(nextRemoteId)}
                /\ fret' = [fret EXCEPT ![r] = Nil]
           ELSE /\ fret' = [fret EXCEPT ![r] = "error"]
                /\ UNCHANGED <<chanMsgs, nextRemoteId, vMessageID, vhist>>
    /\ fpc' = [fpc EXCEPT ![r] = "idle"]
    /\ fbody' = [fbody EXCEPT ![r] = <<>>]
    /\ UNCHANGED <<fnum, fmsgs>>
    /\ UNCHANGED notView

\* TaskQueueView.Refresh, lines 23-57, statement by statement
Refresh(r) ==
    \/ RefreshRender(r)
    \/ RefreshEmpty(r)
    \/ RefreshFetch(r)
    \/ RefreshEdit(r)
    \/ RefreshDeleteOld(r)
    \/ RefreshSend(r)

\* one periodic refresher (UpdateQueueViewCallback, part_000 lines 34-47)
NextView ==
    \/ ViewEnqueue
    \/ ViewTake
    \/ ViewTaskDone
    \/ UserPost
    \/ RefreshRender("a")
    \/ RefreshEmpty("a")
    \/ RefreshFetch("a")
    \/ RefreshEdit("a")
    \/ RefreshDeleteOld("a")
    \/ RefreshSend("a")

SpecView == Init /\ [][NextView]_vars

\* variant: a message that is already tracked stays the tracked one
TrackAfterSend_KeepOld(old, new) == IF old # NoId THEN old ELSE new

\* line 56: v.MessageID = msg.ID
TrackAfterSend(old, new) == new

\* lines 51-54 when Refresh runs concurrently with another Refresh: the send
\* and its answer; msg is kept in the local variable until line 56
RefreshSendCall(r) ==
    /\ fpc[r] = "send"
    /\ vissued' = [vissued EXCEPT ![r] =
          Append(@, VCall("ChannelMessageSend", NoId, fbody[r]))]
    /\ \E out \in RemoteOutcomes :
         IF out = "ok"
           THEN /\ nextRemoteId <= MaxPosts
                /\ chanMsgs' = Append(chanMsgs, IdOf(nextRemoteId))
                /\ nextRemoteId' = nextRemoteId + 1
                /\ fmsgs' = [fmsgs EXCEPT ![r] = <<IdOf(nextRemoteId)>>]
                /\ fpc' = [fpc EXCEPT ![r] = "track"]
                /\ vhist' = vhist \cup {IdOf(nextRemoteId)}
                /\ UNCHANGED <<fret, fbody>>
           ELSE /\ fret' = [fret EXCEPT ![r] = "error"]
                /\ fpc' = [fpc EXCEPT ![r] = "idle"]
                /\ fbody' = [fbody EXCEPT ![r] = <<>>]
                /\ UNCHANGED <<chanMsgs, nextRemoteId, fmsgs, vhist>>
    /\ UNCHANGED <<vMessageID, fnum>>
    /\ UNCHANGED notView

\* lines 56-57: v.MessageID = msg.ID; return nil
RefreshTrack(r) ==
    /\ fpc[r] = "track"
    /\ vMessageID' = TrackAfterSend(vMessageID, fmsgs[r][1])
    /\ fret' = [fret EXCEPT ![r] = Nil]
    /\ fpc' = [fpc EXCEPT ![r] = "idle"]
    /\ fbody' = [fbody EXCEPT ![r] = <<>>]
    /\ fmsgs' = [fmsgs EXCEPT ![r] = <<>>]
    /\ UNCHANGED <<chanMsgs, nextRemoteId, fnum, vissued>>
    /\ UNCHANGED vhist
    /\ UNCHANGED notView

\* Enqueue while two Refresh calls are under way, for MaxRaceTasks tasks
RaceEnqueue == nextTask <= MaxRaceTasks /\ ViewEnqueue

\* two callers of Refresh on the same view at the same time
NextViewRace ==
    \/ RaceEnqueue
    \/ ViewTake
    \/ ViewTaskDone
    \/ UserPost
    \/ \E r \in Refreshers :
         \/ RefreshRender(r)
         \/ RefreshEmpty(r)
         \/ RefreshFetch(r)
         \/ RefreshEdit(r)
         \/ RefreshDeleteOld(r)
         \/ RefreshSendCall(r)
         \/ RefreshTrack(r)

SpecViewRace == Init /\ [][NextViewRace]_vars

\* ===================================== PollableFile, FilePollMessage, Apply

\* strings.TrimSpace (part_007 line 49) on a sequence of characters
White == {" ", "\n"}
RECURSIVE TrimLeft(_)
TrimLeft(s) == IF s # <<>> /\ Head(s) \in White THEN TrimLeft(Tail(s)) ELSE s
RECURSIVE TrimRight(_)
TrimRight(s) ==
    IF s # <<>> /\ s[Len(s)] \in White THEN TrimRight(SubSeq(s, 1, Len(s) - 1)) ELSE s
TrimSpace(s) == TrimRight(TrimLeft(s))

\* what the external process writes to the progress file
Contents == { <<" ">>, <<" ", "a", "\n">>, <<"b">> }

\* the initial text Apply passes to Start (command.go line 295)
InitialTexts == { <<"h", "i">> }

\* os.CreateTemp in NewPollableFile (part_007 line 27)
TempOutcomes == {"ok", "error"}

\* the exit paths of Apply after a successful Start that run only the deferred
\* Stop: command.go lines 309, 330, 391, 405 and 408
DeferredOnlyPaths == {"normal", "download failure", "upload failure"}

PollNoOp == [op |-> "none", text |-> NoText, err |-> FALSE, remote |-> "",
                                            exists |-> NotChecked]

\* NewReplyMessage, which NewFilePollMessage calls (part_003 line 20): the
\* constructor of the reply variant
NewReplyMessage(ck, ch, r) == NewMessage("reply", ck, ch, r)

\* NewFilePollMessage, part_003 lines 19-43 (and its two-id form used with the
\* plain Message): the Message, then the PollableFile with its temporary file
NewFilePollMessage(v, ck, ch, r, tmp) ==
    LET msg == IF v = "reply" THEN NewReplyMessage(ck, ch, r) ELSE NewMessage(v, ck, ch, r)
    IN IF msg.err THEN [err |-> TRUE, ChannelID |-> "", RepliedToMessageID |-> ""]
       ELSE IF tmp = "error" THEN [err |-> TRUE, ChannelID |-> "", RepliedToMessageID |-> ""]
       ELSE msg

\* before Apply constructs the session
InitPoll ==
    /\ InitQueue
    /\ ViewIdle
    /\ PollIdle
    /\ RegIdle
    /\ InlineIdle
    /\ variant \in Variants
    /\ CheckError \in BOOLEAN
    /\ ChannelID = ""
    /\ MessageID = ""
    /\ RepliedToMessageID = ""
    /\ calls = <<>>
    /\ last = PollNoOp
    /\ created = NotCreated

\* Apply: fp, err := discord.NewFilePollMessage(...), command.go lines 285-293
ApplyNew ==
    /\ apc = "init"
    /\ \E ch \in ChannelIds \cup {""}, r \in ReplyIds \cup {""}, tmp \in TempOutcomes :
         LET res == NewFilePollMessage(variant, CheckError, ch, r, tmp) IN
           /\ newArgs' = [ck |-> CheckError, ch |-> ch, r |-> r, tmp |-> tmp,
                          err |-> res.err]
           /\ IF res.err
                THEN /\ apc' = "returned"
                     /\ exitPath' = "init failure"
                     /\ UNCHANGED <<fpm, ChannelID, MessageID, RepliedToMessageID, file>>
                ELSE /\ fpm' = TRUE
                     /\ ChannelID' = res.ChannelID
                     /\ RepliedToMessageID' = res.RepliedToMessageID
                     /\ MessageID' = ""
                     /\ file' = [exists |-> TRUE, data |-> NoText]
                     /\ apc' = "new"
                     /\ UNCHANGED exitPath
    /\ UNCHANGED <<variant, CheckError, calls, last, created>>
    /\ UNCHANGED <<spc, stopKind, stops, done, panicked, dout, tick, fires, writes,
                   ppc, ptext, pid, delivered, ticksAfterDone, launches, perr>>
    /\ UNCHANGED notPoll

\* Apply: fp.Start(initMsgString), command.go lines 296-299, with
\* FilePollMessage.Start, part_003 lines 47-53
ApplyStart ==
    /\ apc = "new"
    /\ \E text \in InitialTexts : MsgCreate(text)
    /\ IF last'.err
         THEN /\ apc' = "returned"
              /\ exitPath' = "start failure"
              /\ UNCHANGED <<ppc, launches, perr>>
         ELSE /\ apc' = "body"
              /\ ppc' = "select"
              /\ launches' = launches + 1
              /\ UNCHANGED exitPath
    /\ UNCHANGED <<variant, ChannelID, RepliedToMessageID, CheckError>>
    /\ newArgs' = NoArgs
    /\ UNCHANGED <<fpm, spc, stopKind, stops, done, panicked, dout, tick,
                   fires, file, writes, ptext, pid, delivered, ticksAfterDone, perr>>
    /\ UNCHANGED notPoll

\* Apply returns on a path that has no Stop of its own: the deferred Stop runs
ApplyExit ==
    /\ apc = "body"
    /\ ~panicked
    /\ \E path \in DeferredOnlyPaths : exitPath' = path
    /\ apc' = "stop"
    /\ spc' = "close"
    /\ stopKind' = "deferred"
    /\ stops' = stops + 1
    /\ UNCHANGED <<fpm, newArgs, done, panicked, dout, tick, fires, file, writes,
                   ppc, ptext, pid, delivered, ticksAfterDone, launches, perr>>
    /\ UNCHANGED <<qvars, mvars, vvars, rvars, ivars>>

\* command.Run() fails: command.go lines 367-369 call fp.Stop()
ApplyRunFails ==
    /\ apc = "body"
    /\ ~panicked
    /\ exitPath' = "process failure"
    /\ apc' = "stop"
    /\ spc' = "close"
    /\ stopKind' = "explicit"
    /\ stops' = stops + 1
    /\ UNCHANGED <<fpm, newArgs, done, panicked, dout, tick, fires, file, writes,
                   ppc, ptext, pid, delivered, ticksAfterDone, launches, perr>>
    /\ UNCHANGED <<qvars, mvars, vvars, rvars, ivars>>

\* where Apply continues when the running Stop returns
AfterStop == IF stopKind = "explicit" THEN "errmsg" ELSE "returned"

\* variant: Stop leaves done open
CloseDone_Forgets(closed) == [done |-> closed, panic |-> FALSE]

\* close(fpm.done), part_003 line 57: closing a closed channel panics
CloseDone(closed) == [done |-> TRUE, panic |-> closed]

\* FilePollMessage.Stop, part_003 line 57
StopClose ==
    /\ spc = "close"
    /\ ~panicked
    /\ done' = CloseDone(done).done
    /\ panicked' = CloseDone(done).panic
    /\ spc' = IF CloseDone(done).panic THEN "none" ELSE "delete"
    /\ apc' = IF CloseDone(done).panic THEN "panicked" ELSE apc
    /\ UNCHANGED <<fpm, newArgs, stopKind, exitPath, stops, dout, tick, fires, file,
                   writes, ppc, ptext, pid, delivered, ticksAfterDone, launches, perr>>
    /\ UNCHANGED <<qvars, mvars, vvars, rvars, ivars>>

\* Stop, part_003 line 58: Message.Delete up to the answer of the remote
\* delete, part_005 lines 74-79
StopDeleteCall ==
    /\ spc = "delete"
    /\ ~panicked
    /\ Len(calls) + 1 <= MaxCalls
    /\ IF validate(CheckError, ChannelID, MessageID) # Nil
         THEN /\ last' = [op |-> "Delete", text |-> NoText, err |-> TRUE, remote |-> "",
                                            exists |-> NotChecked]
              /\ spc' = "none"
              /\ apc' = AfterStop
              /\ UNCHANGED <<calls, dout>>
         ELSE /\ \E out \in DeleteOutcomes : dout' = out
              /\ calls' = Append(calls, DeleteCall(ChannelID, MessageID))
              /\ spc' = "finish"
              /\ UNCHANGED <<last, apc>>
    /\ UNCHANGED <<variant, ChannelID, MessageID, RepliedToMessageID, CheckError, created>>
    /\ UNCHANGED <<fpm, newArgs, stopKind, exitPath, stops, done, panicked, tick, fires,
                   file, writes, ppc, ptext, pid, delivered, ticksAfterDone, launches, perr>>
    /\ UNCHANGED notPoll

\* Message.Delete handles the answer, part_005 lines 80-90, and Stop returns it
StopDeleteFinish ==
    /\ spc = "finish"
    /\ ~panicked
    /\ IF DeleteClearsID(dout)
         THEN /\ MessageID' = ""
              /\ last' = [op |-> "Delete", text |-> NoText, err |-> FALSE, remote |-> dout,
                                            exists |-> NotChecked]
         ELSE /\ UNCHANGED MessageID
              /\ last' = [op |-> "Delete", text |-> NoText, err |-> TRUE, remote |-> dout,
                                            exists |-> NotChecked]
    /\ dout' = ""
    /\ spc' = "none"
    /\ apc' = AfterStop
    /\ UNCHANGED <<variant, ChannelID, RepliedToMessageID, CheckError, calls, created>>
    /\ UNCHANGED <<fpm, newArgs, stopKind, exitPath, stops, done, panicked, tick, fires,
                   file, writes, ppc, ptext, pid, delivered, ticksAfterDone, launches, perr>>
    /\ UNCHANGED notPoll

\* command.go lines 370-384: the error is reported through a Message of its
\* own, Apply returns it, and the deferred Stop of line 299 runs
ApplyErrorMessage ==
    /\ apc = "errmsg"
    /\ ~panicked
    /\ apc' = "stop"
    /\ spc' = "close"
    /\ stopKind' = "deferred"
    /\ stops' = stops + 1
    /\ UNCHANGED <<fpm, newArgs, exitPath, done, panicked, dout, tick, fires, file,
                   writes, ppc, ptext, pid, delivered, ticksAfterDone, launches, perr>>
    /\ UNCHANGED <<qvars, mvars, vvars, rvars, ivars>>

\* the ticker of part_007 line 37 produces a tick; ticker.C holds at most one
TickerFire ==
    /\ ppc \notin {"none", "returned"}
    /\ ~panicked
    /\ ~tick
    /\ fires < MaxTicks
    /\ tick' = TRUE
    /\ fires' = fires + 1
    /\ UNCHANGED <<fpm, newArgs, apc, spc, stopKind, exitPath, stops, done, panicked,
                   dout, file, writes, ppc, ptext, pid, delivered, ticksAfterDone, launches, perr>>
    /\ UNCHANGED <<qvars, mvars, vvars, rvars, ivars>>

\* variant: every write of the file is delivered at once, as a file watcher
\* would do
WriteFile_Notifies ==
    /\ fpm
    /\ ppc # "returned"
    /\ ~panicked
    /\ writes < MaxWrites
    /\ \E c \in Contents :
         /\ file' = [exists |-> TRUE, data |-> c]
         /\ delivered' = TrimSpace(c)
    /\ writes' = writes + 1
    /\ UNCHANGED <<fpm, newArgs, apc, spc, stopKind, exitPath, stops, done, panicked,
                   dout, tick, fires, ppc, ptext, pid, ticksAfterDone, launches, perr>>
    /\ UNCHANGED <<qvars, mvars, vvars, rvars, ivars>>

\* the external process writes the progress file
WriteFile ==
    /\ fpm
    /\ ppc # "returned"
    /\ ~panicked
    /\ writes < MaxWrites
    /\ \E c \in Contents : file' = [exists |-> TRUE, data |-> c]
    /\ writes' = writes + 1
    /\ UNCHANGED <<fpm, newArgs, apc, spc, stopKind, exitPath, stops, done, panicked,
                   dout, tick, fires, ppc, ptext, pid, delivered, ticksAfterDone, launches, perr>>
    /\ UNCHANGED <<qvars, mvars, vvars, rvars, ivars>>

\* the file is momentarily absent
RemoveFile ==
    /\ fpm
    /\ ppc # "returned"
    /\ ~panicked
    /\ file.exists
    /\ writes < MaxWrites
    /\ file' = NoFile
    /\ writes' = writes + 1
    /\ UNCHANGED <<fpm, newArgs, apc, spc, stopKind, exitPath, stops, done, panicked,
                   dout, tick, fires, ppc, ptext, pid, delivered, ticksAfterDone, launches, perr>>
    /\ UNCHANGED <<qvars, mvars, vvars, rvars, ivars>>

\* part_007 lines 41-43: select takes the done case
PollSelectDone ==
    /\ ppc = "select"
    /\ ~panicked
    /\ done
    /\ ppc' = "returned"
    /\ tick' = FALSE
    /\ UNCHANGED <<fpm, newArgs, apc, spc, stopKind, exitPath, stops, done, panicked,
                   dout, fires, file, writes, ptext, pid, delivered, ticksAfterDone, launches, perr>>
    /\ UNCHANGED <<qvars, mvars, vvars, rvars, ivars>>

\* part_007 lines 41 and 44: select takes the ticker case; when both cases are
\* ready, select takes either
PollSelectTick ==
    /\ ppc = "select"
    /\ ~panicked
    /\ tick
    /\ tick' = FALSE
    /\ ppc' = "read"
    /\ ticksAfterDone' = IF done THEN ticksAfterDone + 1 ELSE ticksAfterDone
    /\ UNCHANGED <<fpm, newArgs, apc, spc, stopKind, exitPath, stops, done, panicked,
                   dout, fires, file, writes, ptext, pid, delivered, launches, perr>>
    /\ UNCHANGED <<qvars, mvars, vvars, rvars, ivars>>

\* variant: the content already delivered at the previous tick is skipped
ShouldDeliver_OnChange(text, prev) == text # NoText /\ text # prev

\* part_007 line 50: text != "" (OnUpdate is never nil, line 24)
ShouldDeliver(text, prev) == text # NoText

\* part_007 lines 45-52: read the file, trim, and call OnUpdate, which enters
\* Message.Update (part_003 line 28)
PollRead ==
    /\ ppc = "read"
    /\ ~panicked
    /\ IF ~file.exists
         THEN /\ ppc' = "select"
              /\ UNCHANGED <<ptext, delivered>>
         ELSE IF ShouldDeliver(TrimSpace(file.data), delivered)
           THEN /\ ptext' = TrimSpace(file.data)
                /\ delivered' = TrimSpace(file.data)
                /\ ppc' = "validate"
           ELSE /\ ppc' = "select"
                /\ UNCHANGED <<ptext, delivered>>
    /\ UNCHANGED <<fpm, newArgs, apc, spc, stopKind, exitPath, stops, done, panicked,
                   dout, tick, fires, file, writes, pid, ticksAfterDone, launches, perr>>
    /\ UNCHANGED <<qvars, mvars, vvars, rvars, ivars>>

\* what Update returns for the answer of the edit, part_005 lines 66-70
UpdateResult(out) == IF out = "error" THEN "Update request" ELSE Nil

\* variant: an error of Update ends the polling loop
AfterUpdate_StopsOnError(err) == IF err # Nil THEN "returned" ELSE "select"

\* where the loop goes when the callback returns: the callback only logs the
\* error (part_003 lines 29-31) and the loop takes its next iteration
\* (part_007 lines 51-53)
AfterUpdate(err) == "select"

\* Message.Update, part_005 lines 60-63: validate(); the error Update returns
\* is only logged (part_003 lines 29-31)
PollUpdateValidate ==
    /\ ppc = "validate"
    /\ ~panicked
    /\ IF validate(CheckError, ChannelID, MessageID) # Nil
         THEN /\ perr' = "Update validation"
              /\ ppc' = AfterUpdate("Update validation")
              /\ ptext' = NoText
              /\ UNCHANGED pid
         ELSE /\ pid' = MessageID
              /\ ppc' = "edit"
              /\ UNCHANGED <<ptext, perr>>
    /\ UNCHANGED mvars
    /\ UNCHANGED <<fpm, newArgs, apc, spc, stopKind, exitPath, stops, done, panicked,
                   dout, tick, fires, file, writes, delivered, ticksAfterDone, launches>>
    /\ UNCHANGED notPoll

\* Message.Update, part_005 lines 65-70: the edit, whatever it answers (the
\* error is only logged). m.MessageID is read without synchronisation while
\* Stop's Delete may write it: the read gives the value validate() saw or the
\* current one
PollUpdateCall ==
    /\ ppc = "edit"
    /\ ~panicked
    /\ Len(calls) + 1 <= MaxCalls
    /\ \E id \in {pid, MessageID} :
         calls' = Append(calls, EditCall(ChannelID, id, RepliedToMessageID, ptext))
    /\ \E out \in EditOutcomes :
         /\ perr' = UpdateResult(out)
         /\ ppc' = AfterUpdate(UpdateResult(out))
    /\ ptext' = NoText
    /\ pid' = ""
    /\ UNCHANGED <<variant, ChannelID, MessageID, RepliedToMessageID, CheckError, last,
                   created>>
    /\ UNCHANGED <<fpm, newArgs, apc, spc, stopKind, exitPath, stops, done, panicked,
                   dout, tick, fires, file, writes, delivered, ticksAfterDone, launches>>
    /\ UNCHANGED notPoll

\* FilePollMessage.Stop, part_003 lines 56-59
Stop ==
    \/ StopClose
    \/ StopDeleteCall
    \/ StopDeleteFinish

\* PollableFile.Start, part_007 lines 36-55, with the callback of part_003
\* lines 27-32
Start ==
    \/ PollSelectDone
    \/ PollSelectTick
    \/ PollRead
    \/ PollUpdateValidate
    \/ PollUpdateCall

\* one Apply with its progress session, the ticker and the external process
NextPoll ==
    \/ ApplyNew
    \/ ApplyStart
    \/ ApplyExit
    \/ ApplyRunFails
    \/ ApplyErrorMessage
    \/ StopClose
    \/ StopDeleteCall
    \/ StopDeleteFinish
    \/ TickerFire
    \/ WriteFile
    \/ RemoveFile
    \/ PollSelectDone
    \/ PollSelectTick
    \/ PollRead
    \/ PollUpdateValidate
    \/ PollUpdateCall

SpecPoll == InitPoll /\ [][NextPoll]_vars

\* variant: the polling goroutine is launched whatever Create returned
StartLaunches_Always(createErr) == TRUE

\* FilePollMessage.Start, part_003 lines 48-51: the go statement is reached
\* only when Create returned nil
StartLaunches(createErr) == ~createErr

\* FilePollMessage.Start, part_003 lines 47-53, called again by the holder of
\* the session before any Stop: on a started session, or after a Start that
\* failed
StartAgain ==
    /\ fpm
    /\ stops = 0
    /\ ~panicked
    /\ apc \in {"body", "returned"}
    /\ apc = "returned" => exitPath = "start failure"
    /\ \E text \in InitialTexts : MsgCreate(text)
    /\ IF StartLaunches(last'.err)
         THEN /\ launches' = launches + 1
              /\ ppc' = IF ppc = "none" THEN "select" ELSE ppc
              /\ apc' = "body"
              /\ exitPath' = ""
         ELSE UNCHANGED <<launches, ppc, apc, exitPath>>
    /\ UNCHANGED <<variant, ChannelID, RepliedToMessageID, CheckError>>
    /\ UNCHANGED <<fpm, newArgs, spc, stopKind, stops, done, panicked, dout, tick,
                   fires, file, writes, ptext, pid, delivered, ticksAfterDone, perr>>
    /\ UNCHANGED notPoll

\* one Apply whose session may be started more than once, with the ticker
\* and the polling goroutine; the progress file stays as NewPollableFile
\* created it
NextPollClient ==
    \/ ApplyNew
    \/ ApplyStart
    \/ StartAgain
    \/ ApplyExit
    \/ ApplyRunFails
    \/ ApplyErrorMessage
    \/ StopClose
    \/ StopDeleteCall
    \/ StopDeleteFinish
    \/ TickerFire
    \/ PollSelectDone
    \/ PollSelectTick
    \/ PollRead

SpecPollClient == InitPoll /\ [][NextPollClient]_vars

\* ============================================ registry of queues and views

Builds == {"maps", "global"}

\* process start: part_000 lines 31-32, main.go lines 70-71
InitRegistry ==
    /\ InitQueue
    /\ MsgIdle
    /\ ViewIdle
    /\ PollIdle
    /\ InlineIdle
    /\ build \in Builds
    /\ audioQueues = [ch \in GuildChannels |-> NoQueue]
    /\ audioQueueViews = [ch \in GuildChannels |-> NoView]
    /\ audioQueueView = NoView
    /\ hpc = [h \in Handlers |-> "idle"]
    /\ hch = [h \in Handlers |-> ""]
    /\ hq = [h \in Handlers |-> NoQueue]
    /\ hok = [h \in Handlers |-> FALSE]
    /\ submitted = 0
    /\ madeQueues = {}
    /\ madeViews = {}
    /\ loops = <<>>
    /\ enqueuedOn = {}

\* discordgo calls messageCreateHandler on a goroutine of its own for a
\* submission in some channel (part_000 line 57, main.go lines 96 and 147)
HandlerCall(h) ==
    /\ hpc[h] = "idle"
    /\ submitted < MaxSubmissions
    /\ submitted' = submitted + 1
    /\ \E ch \in GuildChannels : hch' = [hch EXCEPT ![h] = ch]
    /\ hpc' = [hpc EXCEPT ![h] = IF build = "maps" THEN "lookup" ELSE "checkView"]
    /\ UNCHANGED <<build, audioQueues, audioQueueViews, audioQueueView, hq, hok,
                   madeQueues, madeViews, loops, enqueuedOn>>
    /\ UNCHANGED notRegistry

\* part_000 line 98: audioQueue, ok := audioQueues[message.ChannelID]
LookupQueue(h) ==
    /\ hpc[h] = "lookup"
    /\ hq' = [hq EXCEPT ![h] = audioQueues[hch[h]]]
    /\ hok' = [hok EXCEPT ![h] = audioQueues[hch[h]] # NoQueue]
    /\ hpc' = [hpc EXCEPT ![h] = "makeQueue"]
    /\ UNCHANGED <<build, audioQueues, audioQueueViews, audioQueueView, hch, submitted,
                   madeQueues, madeViews, loops, enqueuedOn>>
    /\ UNCHANGED notRegistry

\* part_000 lines 99-102: if !ok, create the queue and register it
MakeQueue(h) ==
    /\ hpc[h] = "makeQueue"
    /\ IF hok[h]
         THEN UNCHANGED <<hq, audioQueues, madeQueues>>
         ELSE LET q == QueueOf(Cardinality(madeQueues) + 1) IN
                /\ hq' = [hq EXCEPT ![h] = q]
                /\ audioQueues' = [audioQueues EXCEPT ![hch[h]] = q]
                /\ madeQueues' = madeQueues \cup {<<hch[h], q>>}
    /\ hpc' = [hpc EXCEPT ![h] = "lookupView"]
    /\ UNCHANGED <<build, audioQueueViews, audioQueueView, hch, hok, submitted,
                   madeViews, loops, enqueuedOn>>
    /\ UNCHANGED notRegistry

\* part_000 line 105: _, ok = audioQueueViews[message.ChannelID]
LookupView(h) ==
    /\ hpc[h] = "lookupView"
    /\ hok' = [hok EXCEPT ![h] = audioQueueViews[hch[h]] # NoView]
    /\ hpc' = [hpc EXCEPT ![h] = "makeView"]
    /\ UNCHANGED <<build, audioQueues, audioQueueViews, audioQueueView, hch, hq,
                   submitted, madeQueues, madeViews, loops, enqueuedOn>>
    /\ UNCHANGED notRegistry

\* part_000 lines 106-112: if !ok, create the view, register it and start its
\* refresher goroutine
MakeView(h) ==
    /\ hpc[h] = "makeView"
    /\ IF hok[h]
         THEN UNCHANGED <<audioQueueViews, madeViews, loops>>
         ELSE LET v == ViewOf(Cardinality(madeViews) + 1) IN
                /\ audioQueueViews' = [audioQueueViews EXCEPT ![hch[h]] = v]
                /\ madeViews' = madeViews \cup {<<hq[h], v>>}
                /\ loops' = Append(loops, v)
    /\ hpc' = [hpc EXCEPT ![h] = "enqueue"]
    /\ UNCHANGED <<build, audioQueues, audioQueueView, hch, hq, hok, submitted,
                   madeQueues, enqueuedOn>>
    /\ UNCHANGED notRegistry

\* main.go lines 170-173 and 184-187: the global pointer is tested, but the
\* view is stored in a new local variable of the same name (:=), and its
\* refresher goroutine is started
CheckGlobalView(h) ==
    /\ hpc[h] = "checkView"
    /\ hq' = [hq EXCEPT ![h] = GlobalQueue]
    /\ IF audioQueueView = NoView
         THEN LET v == ViewOf(Cardinality(madeViews) + 1) IN
                /\ madeViews' = madeViews \cup {<<GlobalQueue, v>>}
                /\ loops' = Append(loops, v)
         ELSE UNCHANGED <<madeViews, loops>>
    /\ hpc' = [hpc EXCEPT ![h] = "enqueue"]
    /\ UNCHANGED <<build, audioQueues, audioQueueViews, audioQueueView, hch, hok,
                   submitted, madeQueues, enqueuedOn>>
    /\ UNCHANGED notRegistry

\* part_000 line 114, main.go lines 176 and 190: audioQueue.Enqueue(command)
HandlerEnqueue(h) ==
    /\ hpc[h] = "enqueue"
    /\ enqueuedOn' = enqueuedOn \cup {<<hch[h], hq[h]>>}
    /\ hpc' = [hpc EXCEPT ![h] = "idle"]
    /\ hch' = [hch EXCEPT ![h] = ""]
    /\ hq' = [hq EXCEPT ![h] = NoQueue]
    /\ hok' = [hok EXCEPT ![h] = FALSE]
    /\ UNCHANGED <<build, audioQueues, audioQueueViews, audioQueueView, submitted,
                   madeQueues, madeViews, loops>>
    /\ UNCHANGED notRegistry

NextRegistry ==
    \E h \in Handlers :
      \/ HandlerCall(h)
      \/ LookupQueue(h)
      \/ MakeQueue(h)
      \/ LookupView(h)
      \/ MakeView(h)
      \/ CheckGlobalView(h)
      \/ HandlerEnqueue(h)

SpecRegistry == InitRegistry /\ [][NextRegistry]_vars

\* ============ StableAudioCommand.Apply with its progress poller inline
\* stable-audio.go lines 159-300 ("current") and part_006 lines 55-150
\* ("earlier", which has no download of an input file)

InlineVersions == {"current", "earlier"}
SendResults == {"ok", "error"}
StepResults == {"ok", "error"}

ICall(fn, content) == [fn |-> fn, content |-> content]
\* the back quote character
BackTick == <<"BQ">>

\* line 211: the text between two back quotes
Quoted(text) == BackTick \o text \o BackTick

\* the text of the message that reports the failure of the external process
ErrMsg == <<"e", "r", "r">>

InitInline ==
    /\ InitQueue
    /\ MsgIdle
    /\ ViewIdle
    /\ PollIdle
    /\ RegIdle
    /\ iversion \in InlineVersions
    /\ ipc = "init"
    /\ iexit = ""
    /\ idone = FALSE
    /\ gpc = "none"
    /\ itick = FALSE
    /\ ifires = 0
    /\ iprog = NoFile
    /\ icalls = <<>>

\* stable-audio.go 181-214: the initial message is sent; on an error Apply
\* returns, otherwise done is made and the polling goroutine is started
InlineSend ==
    /\ ipc = "init"
    /\ \E out \in SendResults :
         IF out = "error"
           THEN /\ ipc' = "returned"
                /\ iexit' = "send failure"
                /\ UNCHANGED <<gpc, icalls>>
           ELSE /\ icalls' = <<ICall("ChannelMessageSendReply", NoText)>>
                /\ gpc' = "select"
                /\ ipc' = IF iversion = "current" THEN "download" ELSE "run"
                /\ UNCHANGED iexit
    /\ UNCHANGED <<iversion, idone, itick, ifires, iprog>>
    /\ UNCHANGED notInline

\* stable-audio.go 220-252: the attachment, if there is one, is downloaded; on
\* a failure (lines 226-245) Apply returns at once
InlineDownload ==
    /\ ipc = "download"
    /\ \E out \in StepResults :
         IF out = "error"
           THEN /\ ipc' = "returned"
                /\ iexit' = "download failure"
           ELSE /\ ipc' = "run"
                /\ UNCHANGED iexit
    /\ UNCHANGED <<iversion, idone, gpc, itick, ifires, iprog, icalls>>
    /\ UNCHANGED notInline

\* the external process writes its progress file while it runs
InlineWrite ==
    /\ ipc = "run"
    /\ \E c \in Contents : iprog' = [exists |-> TRUE, data |-> c]
    /\ UNCHANGED <<iversion, ipc, iexit, idone, gpc, itick, ifires, icalls>>
    /\ UNCHANGED notInline

\* stable-audio.go 271-275: command.CombinedOutput(); on an error the
\* initial message is edited to the error text and Apply returns; line 276:
\* close(done)
InlineRun ==
    /\ ipc = "run"
    /\ \E out \in StepResults :
         IF out = "error"
           THEN /\ icalls' = Append(icalls, ICall("ChannelMessageEdit", ErrMsg))
                /\ ipc' = "returned"
                /\ iexit' = "process failure"
                /\ UNCHANGED idone
           ELSE /\ idone' = TRUE
                /\ ipc' = "open"
                /\ UNCHANGED <<iexit, icalls>>
    /\ UNCHANGED <<iversion, gpc, itick, ifires, iprog>>
    /\ UNCHANGED notInline

\* stable-audio.go 279-283: os.Open(outFile)
InlineOpen ==
    /\ ipc = "open"
    /\ \E out \in StepResults :
         IF out = "error"
           THEN ipc' = "returned" /\ iexit' = "open failure"
           ELSE ipc' = "upload" /\ UNCHANGED iexit
    /\ UNCHANGED <<iversion, idone, gpc, itick, ifires, iprog, icalls>>
    /\ UNCHANGED notInline

\* stable-audio.go 286-299: the result is uploaded, Apply returns
InlineUpload ==
    /\ ipc = "upload"
    /\ \E out \in StepResults :
         /\ ipc' = "returned"
         /\ iexit' = IF out = "error" THEN "upload failure" ELSE "normal"
    /\ UNCHANGED <<iversion, idone, gpc, itick, ifires, iprog, icalls>>
    /\ UNCHANGED notInline

\* the goroutine's ticker (one second) puts a tick into ticker.C
InlineTickerFire ==
    /\ gpc \notin {"none", "returned"}
    /\ ~itick
    /\ ifires < MaxTicks
    /\ itick' = TRUE
    /\ ifires' = ifires + 1
    /\ UNCHANGED <<iversion, ipc, iexit, idone, gpc, iprog, icalls>>
    /\ UNCHANGED notInline

\* stable-audio.go 201-203: case <-done: the initial message is deleted and
\* the goroutine returns
InlineSelectDone ==
    /\ gpc = "select"
    /\ idone
    /\ icalls' = Append(icalls, ICall("ChannelMessageDelete", NoText))
    /\ gpc' = "returned"
    /\ UNCHANGED <<iversion, ipc, iexit, idone, itick, ifires, iprog>>
    /\ UNCHANGED notInline

\* stable-audio.go 204: case <-ticker.C
InlineSelectTick ==
    /\ gpc = "select"
    /\ itick
    /\ itick' = FALSE
    /\ gpc' = "read"
    /\ UNCHANGED <<iversion, ipc, iexit, idone, ifires, iprog, icalls>>
    /\ UNCHANGED notInline

\* stable-audio.go 205-214: the file is read and, when it holds more than
\* white space, the initial message is edited to the trimmed content
InlineRead ==
    /\ gpc = "read"
    /\ IF iprog.exists /\ TrimSpace(iprog.data) # NoText
         THEN icalls' = Append(icalls,
                           ICall("ChannelMessageEdit", Quoted(TrimSpace(iprog.data))))
         ELSE UNCHANGED icalls
    /\ gpc' = "select"
    /\ UNCHANGED <<iversion, ipc, iexit, idone, itick, ifires, iprog>>
    /\ UNCHANGED notInline

NextInline ==
    \/ InlineSend
    \/ InlineDownload
    \/ InlineWrite
    \/ InlineRun
    \/ InlineOpen
    \/ InlineUpload
    \/ InlineTickerFire
    \/ InlineSelectDone
    \/ InlineSelectTick
    \/ InlineRead

SpecInline == InitInline /\ [][NextInline]_vars

\* ================================================== TaskQueue: properties

IsPrefix(s, t) == Len(s) <= Len(t) /\ \A i \in 1..Len(s) : s[i] = t[i]
PosIn(seq, t) == CHOOSE i \in 1..Len(seq) : seq[i] = t
Occurs(seq, t) == \E i \in 1..Len(seq) : seq[i] = t
NoConsumer == \A c \in Consumers : rpc[c] = "none"
HandleErrorCount(t) == Cardinality({i \in 1..Len(handled) : handled[i][1] = t})

\* C1: tasks start executing in exactly the order in which Enqueue appended
\* them: the sequence of Apply() calls is always a prefix of the append order.
C1_FifoStartOrder == IsPrefix(started, appended)

\* two callers raced so that task 2 was appended before task 1, and all ran
C1_Witness ==
    /\ Len(appended) = MaxTasks
    /\ appended[1] = 2
    /\ started = appended

\* C2: no two Apply() calls of tasks of the same queue are in progress at the
\* same time.
C2_NoConcurrentApply == Cardinality({c \in Consumers : rpc[c] = "applying"}) <= 1

\* an Apply is in progress in a re-spawned consumer while a caller is inside Enqueue
C2_Witness ==
    /\ \E c \in Consumers : rpc[c] = "applying"
    /\ spawns >= 2
    /\ \E p \in Callers : epc[p] \in {"append", "spawn", "unlock"}

\* C3: at most one runLoop exists at any time; a consumer is spawned only by a
\* step that finds the running flag clear and sets it; the flag is cleared only
\* by the consumer, while it holds the mutex, in the step that sends it to its
\* return.
C3_SingleConsumer ==
    /\ [](Cardinality({c \in Consumers : rpc[c] # "none"}) <= 1)
    /\ [][ /\ (spawns' # spawns => ~running /\ running')
           /\ (running /\ ~running' =>
                 \E c \in Consumers : /\ mutex = ByRunLoop(c)
                                      /\ rpc[c] = "check"
                                      /\ rpc'[c] = "unlock_exit") ]_vars

\* a second consumer has been spawned after the first one terminated
C3_Witness ==
    /\ spawns >= 2
    /\ \E c \in Consumers : rpc[c] # "none"
    /\ Len(started) >= 1

\* C4: once some task's Apply() has returned an error, every task that is in
\* the queue is still eventually applied (the consumer neither stops nor
\* skips); Enqueue has no result through which the error could come back.
C4_ErrorDoesNotStopQueue ==
    \A t \in TaskIds :
        ((\E f \in TaskIds : applyRet[f] \in Errors) /\ Occurs(queue, t))
            ~> Occurs(started, t)

\* a task failed and a task appended behind it has been applied afterwards
C4_Witness ==
    \E f \in TaskIds, t \in TaskIds :
        /\ applyRet[f] \in Errors
        /\ Occurs(started, f) /\ Occurs(started, t)
        /\ PosIn(started, f) < PosIn(started, t)
        /\ HandleErrorCount(f) = 1

\* C5: the flag is set exactly while a consumer exists that has not yet found
\* the list empty; when no consumer exists and nobody holds the mutex the list
\* is empty and every appended task has been applied; an Enqueue that finds
\* the flag clear sets it and spawns a consumer.
C5_InactiveWhenEmptyThenRespawn ==
    /\ [](running <=> \E c \in Consumers : rpc[c] \notin {"none", "unlock_exit"})
    /\ []((mutex = Free /\ NoConsumer) => (queue = <<>> /\ started = appended))
    /\ [][ \A p \in Callers :
             (epc[p] = "spawn" /\ epc'[p] = "unlock" /\ ~running)
                => (running' /\ spawns' = spawns + 1) ]_vars

\* the first consumer found the list empty and ended; a later Enqueue spawned a
\* second one, which applied the new task and ended too
C5_Witness ==
    /\ spawns = 2
    /\ NoConsumer
    /\ ~running
    /\ Len(started) = 2
    /\ started = appended

\* C6: HandleError is called exactly once, with the value Apply() returned, for
\* a task whose Apply() returned an error, and never for a task whose Apply()
\* returned nil; when no consumer is left the flag is clear.
C6_HandleErrorExactlyOnce ==
    /\ \A t \in TaskIds :
        /\ applyRet[t] \in {Pending, Nil} => HandleErrorCount(t) = 0
        /\ applyRet[t] \in Errors =>
             /\ HandleErrorCount(t) =
                  (IF \E c \in Consumers : rpc[c] = "handle" /\ rtask[c] = t
                     THEN 0 ELSE 1)
             /\ \A i \in 1..Len(handled) :
                  handled[i][1] = t => handled[i][2] = applyRet[t]
    /\ NoConsumer => ~running

\* tasks A, B, C returned nil, error x, nil: one HandleError call, B with x
C6_Witness ==
    /\ Len(started) = 3
    /\ applyRet[started[1]] = Nil
    /\ applyRet[started[2]] = "x"
    /\ applyRet[started[3]] = Nil
    /\ handled = << <<started[2], "x">> >>
    /\ NoConsumer
    /\ ~running


\* positions of runLoop from the Unlock of line 47 to the end of the iteration:
\* Apply() or HandleError() is about to run, or running
TaskStates == {"apply", "applying", "handle", "handling"}

\* C19: a consumer that is executing a task's Apply() or HandleError() does
\* not hold the mutex; so an Enqueue that waits for the mutex while consumers
\* are only executing tasks (or idle) and no other Enqueue holds it can take
\* the mutex at once, whether or not the task ever returns.
C19_MutexFreeDuringTask ==
    /\ \A c \in Consumers : rpc[c] \in TaskStates => mutex # ByRunLoop(c)
    /\ \A p \in Callers :
         ( /\ epc[p] = "lock"
           /\ \A q \in Callers : mutex # ByEnqueue(q)
           /\ \A c \in Consumers : rpc[c] \in TaskStates \cup {"none", "lock"} )
         => ENABLED EnqueueLock(p)

\* task 1 has not returned from Apply(), and the Enqueues of tasks 2 and 3
\* have completed meanwhile
C19_Witness ==
    /\ \E c \in Consumers : rpc[c] = "applying" /\ rtask[c] = 1
    /\ applyRet[1] = Pending
    /\ started = <<1>>
    /\ queue = <<2, 3>>
    /\ \A p \in Callers : epc[p] = "idle"
    /\ mutex = Free

\* the task a consumer has popped and whose Apply() it has not called yet
Held ==
    IF \E c \in Consumers : rpc[c] \in {"unlock", "apply"}
      THEN <<rtask[CHOOSE c \in Consumers : rpc[c] \in {"unlock", "apply"}]>>
      ELSE <<>>

NoDuplicates(seq) == \A i \in 1..Len(seq), j \in 1..Len(seq) : seq[i] = seq[j] => i = j

\* C32: every task Enqueue appended is, at any moment, exactly one of: applied
\* (Apply() called once), popped and about to be applied, or still in the
\* list; no task is dropped and none is applied twice, whatever the
\* interleaving of Enqueue with the consumer's pop, exit and re-spawn.
C32_AppliedExactlyOnce ==
    /\ appended = started \o Held \o queue
    /\ NoDuplicates(appended)
    /\ NoDuplicates(started)
    /\ Cardinality({c \in Consumers : rpc[c] \in {"unlock", "apply"}}) <= 1

\* one task applied, one popped and not yet applied, one in the list, by a
\* consumer that was spawned after the first one had ended
C32_Witness ==
    /\ Len(started) = 1
    /\ Held # <<>>
    /\ Len(queue) = 1
    /\ spawns = 2
    /\ appended = started \o Held \o queue

\* C33: no lost wake-up: whenever nobody holds the mutex and the list is not
\* empty, the flag is set and a consumer goroutine exists.
C33_NoLostWakeup ==
    (mutex = Free /\ queue # <<>>) =>
        (running /\ \E c \in Consumers : rpc[c] \notin {"none", "unlock_exit"})

\* the first consumer found the list empty and ended; the Enqueue that raced
\* with it spawned a second one, which has not yet taken the mutex
C33_Witness ==
    /\ mutex = Free
    /\ queue # <<>>
    /\ spawns = 2
    /\ running
    /\ \E c \in Consumers : rpc[c] = "lock"
    /\ \A p \in Callers : epc[p] = "idle"

AllCallersIdle == \A p \in Callers : epc[p] = "idle"
Quiescent == queue = <<>> /\ ~running /\ NoConsumer

\* C34: under fair scheduling, with every Apply() and HandleError() returning,
\* the Apply() of every task passed to Enqueue is eventually called; and when
\* the Enqueue calls stop, the list eventually stays empty with the flag clear
\* and no consumer left.
C34_Liveness ==
    /\ \A t \in TaskIds : (\E p \in Callers : etask[p] = t) ~> Occurs(started, t)
    /\ <>[]AllCallersIdle => <>[]Quiescent

\* all the tasks have been enqueued and applied, one of them failed and was
\* handled, and the queue is at rest
C34_Witness ==
    /\ nextTask > MaxTasks
    /\ AllCallersIdle
    /\ Quiescent
    /\ mutex = Free
    /\ Len(started) = MaxTasks
    /\ \E t \in TaskIds : applyRet[t] \in Errors /\ HandleErrorCount(t) = 1

Handling == {c \in Consumers : rpc[c] \in {"handle", "handling"}}

\* C40: HandleError runs on the consumer that applied the task, and the next
\* Apply() starts only after it has returned: at every start of an Apply() no
\* HandleError is pending or in progress and every task that failed before
\* has had its HandleError; while a HandleError is pending or in progress
\* the task it is for is the one started last.
C40_HandleErrorBeforeNextApply ==
    [][ /\ started' # started =>
             /\ Handling = {}
             /\ \A i \in 1..Len(started) :
                  applyRet[started[i]] \in Errors => HandleErrorCount(started[i]) = 1
        /\ \A c \in Handling' :
             /\ rtask'[c] = started'[Len(started')]
             /\ Handling' = {c} ]_vars

\* the first task failed and was handled, the second one is being applied
C40_Witness ==
    /\ Len(started) = 2
    /\ applyRet[started[1]] \in Errors
    /\ HandleErrorCount(started[1]) = 1
    /\ applyRet[started[2]] = Pending
    /\ \E c \in Consumers : rpc[c] = "applying" /\ rtask[c] = started[2]

\* ==================================================== Message: properties

\* a step that is a call of the named Message operation
OpStep(name) == (calls' # calls \/ last' # last) /\ last'.op = name

\* C7: a Create called while the session check fails, the channel id is
\* empty, the message id is already set or (reply variant) the reply-target id
\* is empty returns an error, issues no call on the collaborator and leaves the
\* message id as it was.
C7_CreateRejectsWithoutRemoteCall ==
    [][ ( /\ OpStep("Create")
          /\ \/ CheckError
             \/ ChannelID = ""
             \/ MessageID # ""
             \/ (variant = "reply" /\ RepliedToMessageID = "") )
        => ( last'.err /\ calls' = calls /\ MessageID' = MessageID ) ]_vars

\* a Create on a reply-variant Message whose reply-target id had been emptied
\* was rejected: an error, no call at all, the id still empty
C7_Witness ==
    /\ last.op = "Create" /\ last.err /\ last.remote = ""
    /\ variant = "reply" /\ RepliedToMessageID = ""
    /\ ChannelID # "" /\ MessageID = "" /\ ~CheckError
    /\ calls = <<>>

\* C8: a Delete on a Sent message whose validation passes: remote not-found
\* gives nil and an empty id; any other remote error gives an error and the id
\* unchanged; remote success gives nil and an empty id.
C8_DeleteOutcomes ==
    [][ ( OpStep("Delete") /\ MessageID # "" /\ ~CheckError /\ ChannelID # "" )
        => /\ last'.remote \in DeleteOutcomes
           /\ last'.remote = "notfound" => (~last'.err /\ MessageID' = "")
           /\ last'.remote = "error" => (last'.err /\ MessageID' = MessageID)
           /\ last'.remote = "ok" => (~last'.err /\ MessageID' = "") ]_vars

\* the remote answered not-found to the delete of a created message
C8_Witness ==
    /\ last.op = "Delete" /\ last.remote = "notfound" /\ ~last.err
    /\ MessageID = ""
    /\ created.id # ""
    /\ calls[Len(calls)].fn = "ChannelMessageDelete"

\* C9: the message id changes only from empty to the id the remote assigned in
\* a successful Create, or from non-empty to empty in a Delete that succeeded
\* or hit not-found.
C9_IdTransitions ==
    [][ MessageID' # MessageID =>
          \/ /\ MessageID = ""
             /\ last'.op = "Create" /\ ~last'.err
             /\ MessageID' \in RemoteIds /\ MessageID' = last'.remote
          \/ /\ MessageID # "" /\ MessageID' = ""
             /\ last'.op = "Delete" /\ ~last'.err
             /\ last'.remote \in {"ok", "notfound"} ]_vars

\* Unsent -> Sent -> Unsent -> Sent again, under a different remote id
C9_Witness ==
    /\ MessageID # ""
    /\ \E i \in 1..Len(calls) :
         /\ calls[i].fn = "ChannelMessageDelete"
         /\ calls[i].id \in RemoteIds
         /\ calls[i].id # MessageID
         /\ i < Len(calls)

\* C10: once a Create on channel c has returned remote id m, an Update whose
\* validation passes issues exactly one edit addressed to (c, m) with its text,
\* a Delete whose validation passes issues exactly one delete addressed to
\* (c, m) and leaves the id empty unless it returns an error, and a reply
\* variant Create whose validation passes issues exactly one send-reply with
\* (c, text, reply-target id).
C10_AddressedToCreated ==
    [][ /\ ( OpStep("Update") /\ ~CheckError /\ MessageID # "" )
           => /\ created.id # ""
              /\ calls' = Append(calls,
                    Call("ChannelMessageEdit", created.chan, created.id, last'.text, ""))
        /\ ( OpStep("Delete") /\ ~CheckError /\ MessageID # "" )
           => /\ created.id # ""
              /\ calls' = Append(calls,
                    Call("ChannelMessageDelete", created.chan, created.id, "", ""))
              /\ ~last'.err => MessageID' = ""
        /\ ( OpStep("Create") /\ variant = "reply" /\ ~CheckError /\ MessageID = "" )
           => calls' = Append(calls,
                    Call("ChannelMessageSendReply", ChannelID, "", last'.text,
                         RepliedToMessageID)) ]_vars

\* Create("hi") on "c1" replying to "r1" returned "m1"; Update("bye"); Delete()
C10_Witness ==
    /\ calls = << Call("ChannelMessageSendReply", "c1", "", "hi", "r1"),
                  Call("ChannelMessageEdit", "c1", "m1", "bye", ""),
                  Call("ChannelMessageDelete", "c1", "m1", "", "") >>
    /\ MessageID = ""
    /\ ~last.err

\* C11: an Update or a Delete called while the message id is empty, the
\* channel id is empty or the session check fails returns an error, issues no
\* call on the collaborator and leaves the id as it was; so does a second
\* Delete after a successful one.
C11_UpdateDeleteRejectWithoutRemoteCall ==
    [][ ( /\ (OpStep("Update") \/ OpStep("Delete"))
          /\ (CheckError \/ ChannelID = "" \/ MessageID = "") )
        => ( last'.err /\ calls' = calls /\ MessageID' = MessageID ) ]_vars

\* Create, then a Delete that the remote accepted, then a second Delete that
\* was rejected without a second remote delete
C11_Witness ==
    /\ last.op = "Delete" /\ last.err /\ last.remote = ""
    /\ Len(calls) = 2
    /\ calls[1].fn = "ChannelMessageSendReply"
    /\ calls[2] = Call("ChannelMessageDelete", created.chan, created.id, "", "")
    /\ MessageID = "" /\ ChannelID # "" /\ ~CheckError

\* a Create of the plain variant that got past its validation
PlainCreateChecked ==
    /\ OpStep("Create")
    /\ variant = "plain"
    /\ CreateValidation(variant, CheckError, ChannelID, MessageID, RepliedToMessageID) = Nil

NewCalls == SubSeq(calls', Len(calls) + 1, Len(calls'))

\* C27: in the plain variant a Create that got past its validation fetches
\* the message; exists() returns (false, nil) when the fetch answers
\* not-found, (true, nil) when it succeeds and an error when it fails
\* otherwise; the send is issued exactly when the fetch answered not-found,
\* and in the other two cases Create returns an error, has sent nothing
\* and the message id is still empty.
C27_ExistsGuardsSend ==
    [][ PlainCreateChecked =>
          LET e == last'.exists IN
            /\ Len(NewCalls) >= 1
            /\ NewCalls[1] = FetchCall(ChannelID, MessageID)
            /\ e.fetch \in FetchOutcomes
            /\ e.fetch = "notfound" => (~e.found /\ ~e.err)
            /\ e.fetch = "found" => (e.found /\ ~e.err)
            /\ e.fetch = "error" => (~e.found /\ e.err)
            /\ (\E i \in 1..Len(NewCalls) : NewCalls[i].fn = "ChannelMessageSend")
                 <=> e.fetch = "notfound"
            /\ e.fetch # "notfound" =>
                 /\ last'.err
                 /\ Len(NewCalls) = 1
                 /\ MessageID' = "" ]_vars

\* the fetch found a message: Create returned an error after the fetch alone
C27_Witness ==
    /\ variant = "plain"
    /\ last.op = "Create" /\ last.err
    /\ last.exists = [fetch |-> "found", found |-> TRUE, err |-> FALSE]
    /\ calls = <<FetchCall("c1", "")>>
    /\ MessageID = ""

\* C38: a Message operation that returns an error leaves MessageID as it
\* was, and Update leaves it as it was whatever it returns.
C38_ErrorKeepsID ==
    [][ /\ (\E name \in {"Create", "Update", "Delete"} : OpStep(name) /\ last'.err)
              => MessageID' = MessageID
        /\ OpStep("Update") => MessageID' = MessageID ]_vars

\* a Create whose send failed, a Create that stored m1, an Update whose edit
\* failed and a Delete the remote refused: the id is still m1
C38_Witness ==
    /\ MessageID = "m1"
    /\ last.op = "Delete" /\ last.err /\ last.remote = "error"
    /\ Len(calls) = 4
    /\ calls[1].fn = calls[2].fn
    /\ calls[3].fn = "ChannelMessageEdit"
    /\ calls[4] = DeleteCall(ChannelID, "m1")
    /\ created.id = "m1"

\* ============================================== TaskQueueView: properties

\* the Refresh of r that rendered an empty queue takes its next step
EmptyRefreshStep(r) == fpc[r] = "rendered" /\ fnum[r] = 0 /\ fpc'[r] # "rendered"

\* C12: a Refresh that observed an empty queue has issued no remote call so
\* far, and its next step ends it with nil: when a status message id is tracked
\* the only call of the whole Refresh is a delete of that id and the tracked id
\* is cleared; when none is tracked the Refresh issues no remote call at all.
\* It never sends or edits.
C12_EmptyQueueRefresh ==
    [][ \A r \in Refreshers :
          EmptyRefreshStep(r) =>
            /\ vissued[r] = <<>>
            /\ fpc'[r] = "idle"
            /\ fret'[r] = Nil
            /\ vMessageID' = NoId
            /\ IF vMessageID # NoId
                 THEN vissued'[r] = <<VCall("ChannelMessageDelete", vMessageID, <<>>)>>
                 ELSE vissued'[r] = <<>> /\ chanMsgs' = chanMsgs ]_vars

\* a Refresh on an empty queue has deleted the status message that an earlier
\* Refresh had sent
C12_Witness ==
    /\ fpc["a"] = "idle"
    /\ fnum["a"] = 0
    /\ fret["a"] = Nil
    /\ vissued["a"] = <<VCall("ChannelMessageDelete", IdOf(1), <<>>)>>
    /\ vMessageID = NoId
    /\ nextRemoteId > 1
    /\ ~InChannel(IdOf(1))

\* C13: the body rendered from a queue of n >= 1 tasks has min(n, 5) numbered
\* entry lines, the i-th for the i-th task of the queue, followed by one line
\* "...and K more..." with K = n - 5 exactly when n > 5; for n <= 5 no line of
\* the body is such a line.
C13_RenderedBody ==
    [][ \A r \in Refreshers :
          (fpc[r] = "idle" /\ fpc'[r] = "rendered" /\ Len(queue) >= 1) =>
            LET n == Len(queue)
                shown == IF n <= MAX_JOBS_IN_VIEW THEN n ELSE MAX_JOBS_IN_VIEW
                body == fbody'[r]
            IN /\ \A i \in 1..shown : body[i] = <<"entry", i, TypeOf(queue[i])>>
               /\ IF n > MAX_JOBS_IN_VIEW
                    THEN /\ Len(body) = shown + 1
                         /\ body[shown + 1] = <<"more", n - MAX_JOBS_IN_VIEW>>
                    ELSE /\ Len(body) = shown
                         /\ \A i \in 1..Len(body) : body[i][1] # "more" ]_vars

\* six tasks are queued and the body ends with "...and 1 more..."
C13_Witness ==
    /\ fpc["a"] = "rendered"
    /\ fnum["a"] = MAX_JOBS_IN_VIEW + 1
    /\ Len(fbody["a"]) = MAX_JOBS_IN_VIEW + 1
    /\ fbody["a"][MAX_JOBS_IN_VIEW + 1] = MoreLine(1)
    /\ fbody["a"][1] = EntryLine(1, queue[1])

FetchLatest == VCall("ChannelMessages", NoId, <<>>)

\* C22: a Refresh that rendered a non-empty queue first fetches the most
\* recent message. If that is the tracked message it issues one edit of it
\* with the rendered body and keeps the tracked id. Otherwise it deletes the
\* tracked message, if there is one, then sends the body once, and a
\* successful send makes the new message's id the tracked id.
C22_EditOrReplace ==
    [][ \A r \in Refreshers :
          /\ (fpc[r] = "rendered" /\ fnum[r] >= 1 /\ fpc'[r] # "rendered") =>
               /\ fbody[r] # <<>>
               /\ vissued'[r] = <<FetchLatest>>
               /\ fpc'[r] = "fetched" => fmsgs'[r] = LatestMessages
               /\ vMessageID' = vMessageID
          /\ (fpc[r] = "fetched" /\ fpc'[r] # "fetched") =>
               IF fmsgs[r] # <<>> /\ fmsgs[r][1] = vMessageID
                 THEN /\ fpc'[r] = "idle"
                      /\ vissued'[r] =
                           <<FetchLatest, VCall("ChannelMessageEdit", vMessageID, fbody[r])>>
                      /\ vMessageID' = vMessageID
                      /\ chanMsgs' = chanMsgs
                 ELSE /\ fpc'[r] = "send"
                      /\ vissued'[r] =
                           IF vMessageID # NoId
                             THEN <<FetchLatest,
                                    VCall("ChannelMessageDelete", vMessageID, <<>>)>>
                             ELSE <<FetchLatest>>
                      /\ vMessageID' = vMessageID
          /\ (fpc[r] = "send" /\ fpc'[r] # "send") =>
               /\ fpc'[r] = "idle"
               /\ vissued'[r] = Append(vissued[r], VCall("ChannelMessageSend", NoId, fbody[r]))
               /\ IF fret'[r] = Nil
                    THEN /\ vMessageID' = IdOf(nextRemoteId)
                         /\ ~InChannel(vMessageID')
                         /\ chanMsgs' = Append(chanMsgs, vMessageID')
                    ELSE vMessageID' = vMessageID /\ chanMsgs' = chanMsgs ]_vars

\* somebody posted after the status message: the Refresh deleted message 1
\* and sent message 3, which is now tracked
C22_Witness ==
    /\ fpc["a"] = "idle"
    /\ fret["a"] = Nil
    /\ vissued["a"] = <<FetchLatest, VCall("ChannelMessageDelete", IdOf(1), <<>>),
                        VCall("ChannelMessageSend", NoId, renderBody(<<1>>))>>
    /\ vMessageID = IdOf(3)
    /\ chanMsgs = <<IdOf(2), IdOf(3)>>

\* C25: Refresh is not atomic against another Refresh.  A Refresh that sent a
\* new status message stores that message's id over whatever id is tracked at
\* that moment and removes nothing from the channel; so when two concurrent
\* Refresh calls on a non-empty queue both send, only one of the two ids is
\* tracked afterwards and the other message stays in the channel untracked.
C25_TrackOverwrites ==
    [][ \A r \in Refreshers :
          (fpc[r] = "track" /\ fpc'[r] = "idle") =>
             /\ vMessageID' = fmsgs[r][1]
             /\ chanMsgs' = chanMsgs
             /\ InChannel(vMessageID')
             /\ (vMessageID # NoId /\ InChannel(vMessageID)
                   /\ vMessageID # fmsgs[r][1]) =>
                     \E i \in 1..Len(chanMsgs') :
                        chanMsgs'[i] = vMessageID /\ chanMsgs'[i] # vMessageID'
      ]_vars

RaceSends == <<FetchLatest, VCall("ChannelMessageSend", NoId, renderBody(<<1>>))>>

\* both Refresh calls fetched an empty channel, both sent, no remote call
\* failed: two status messages, the one sent first is the tracked one
C25_Witness ==
    /\ \A r \in Refreshers :
         fpc[r] = "idle" /\ fret[r] = Nil /\ vissued[r] = RaceSends
    /\ chanMsgs = <<IdOf(1), IdOf(2)>>
    /\ vMessageID = IdOf(1)

\* C29: each entry line of the rendered body shows the Prompt() text of the
\* task it stands for, truncated or padded to the fixed display width.
C29_EntryShowsPrompt ==
    [][ \A r \in Refreshers :
          (fpc[r] = "idle" /\ fpc'[r] = "rendered" /\ Len(queue) >= 1) =>
             \A i \in 1..Min(Len(queue), MAX_JOBS_IN_VIEW) :
                /\ fbody'[r][i] = <<"entry", i, formatCell(Prompt(queue[i]))>>
                /\ Len(fbody'[r][i][3]) = promptCellWidth ]_vars

\* C30: a Refresh whose fetch of the most recent message fails returns an
\* error, the fetch being the only remote call it issued, and leaves the
\* tracked id and the channel as they were; and after a Refresh that returned
\* an error the refresh loop goes on: its next tick can call Refresh again.
C30_FetchFailure ==
    /\ [][ \A r \in Refreshers :
             (fpc[r] = "rendered" /\ fpc'[r] = "idle" /\ fbody[r] # <<>>) =>
                /\ fret'[r] = "error"
                /\ vissued'[r] = <<FetchLatest>>
                /\ vMessageID' = vMessageID
                /\ chanMsgs' = chanMsgs ]_vars
    /\ [](fpc["a"] = "idle" /\ fret["a"] = "error" => ENABLED RefreshRender("a"))

\* the fetch failed while a status message is tracked: nothing but the fetch
\* was issued, the id is kept, and the next Refresh can start
C30_Witness ==
    /\ fpc["a"] = "idle"
    /\ fret["a"] = "error"
    /\ vissued["a"] = <<FetchLatest>>
    /\ vMessageID = IdOf(1)
    /\ chanMsgs = <<IdOf(1)>>
    /\ Len(queue) >= 1
    /\ ENABLED RefreshRender("a")

Applying == {c \in Consumers : rpc[c] = "applying"}

\* C35: a task that is being executed is no longer in the task list, so a
\* Refresh taken meanwhile counts and renders the list without it; when the
\* list is empty while a task executes, the Refresh renders the empty body
\* and, if a status message is tracked, deletes it and clears the id.
C35_RunningTaskNotShown ==
    /\ [](\A c \in Applying : ~Occurs(queue, rtask[c]))
    /\ [][ \A r \in Refreshers :
             /\ (fpc[r] = "idle" /\ fpc'[r] = "rendered" /\ Applying # {}) =>
                  /\ fnum'[r] = Len(queue)
                  /\ Len(fbody'[r]) <= Len(queue) + 1
                  /\ queue = <<>> => fbody'[r] = <<>>
             /\ (EmptyRefreshStep(r) /\ Applying # {} /\ vMessageID # NoId) =>
                  /\ vMessageID' = NoId
                  /\ vissued'[r] = <<VCall("ChannelMessageDelete", vMessageID, <<>>)>>
       ]_vars

\* the only outstanding task is being executed and a Refresh has just deleted
\* the status message
C35_Witness ==
    /\ Applying # {}
    /\ queue = <<>>
    /\ fpc["a"] = "idle"
    /\ fnum["a"] = 0
    /\ vissued["a"] = <<VCall("ChannelMessageDelete", IdOf(1), <<>>)>>
    /\ vMessageID = NoId
    /\ chanMsgs = <<>>
    /\ nextTask = 2

\* C36: with one Refresh caller, leaving aside the messages the remote has
\* refused to delete: whenever no Refresh is under way, at most one message
\* sent by the view is in the channel, and it is the tracked one.
C36_AtMostOneViewMessage ==
    /\ \A id \in vhist : InChannel(id)
    /\ fpc["a"] = "idle" =>
          /\ Cardinality(vhist) <= 1
          /\ \A id \in vhist : id = vMessageID

\* the view's first message was pushed up by another post, deleted, and
\* replaced by a new one at the bottom of the channel
C36_Witness ==
    /\ fpc["a"] = "idle"
    /\ vhist = {IdOf(3)}
    /\ vMessageID = IdOf(3)
    /\ chanMsgs = <<IdOf(2), IdOf(3)>>
    /\ fret["a"] = Nil

\* ================= PollableFile, FilePollMessage and Apply: properties

\* text is data without its leading and trailing white space
IsTrimOf(text, data) ==
    /\ text # NoText
    /\ text[1] \notin White
    /\ text[Len(text)] \notin White
    /\ \E i \in 1..Len(data) :
         /\ SubSeq(data, i, i + Len(text) - 1) = text
         /\ \A k \in 1..Len(data) : (k < i \/ k >= i + Len(text)) => data[k] \in White

AllWhite(data) == \A k \in 1..Len(data) : data[k] \in White

EditsIn(cs) == SelectSeq(cs, LAMBDA c : c.fn = "ChannelMessageEdit")

\* C14: the tick the polling loop has received calls the callback once, with
\* the trimmed content, when the file is readable and holds more than white
\* space, also when that content was delivered at the previous tick; otherwise
\* it calls nothing and the loop polls on. The callback is entered from a tick
\* only, and as long as the file was never written it has not been called.
C14_CallbackPerTick ==
    [][ /\ (ppc = "read" /\ ppc' # "read") =>
             IF file.exists /\ ~AllWhite(file.data)
               THEN /\ ppc' = "validate"
                    /\ IsTrimOf(ptext', file.data)
                    /\ delivered' = ptext'
               ELSE /\ ppc' = "select"
                    /\ delivered' = delivered
        /\ (ppc' = "validate" /\ ppc # "validate") => ppc = "read"
        /\ delivered' # delivered => ppc = "read"
        /\ writes' = 0 => (delivered' = NoText /\ EditsIn(calls') = <<>>) ]_vars

\* one write of the file, two ticks, two edits with the same trimmed content
C14_Witness ==
    /\ writes = 1
    /\ file = [exists |-> TRUE, data |-> <<" ", "a", "\n">>]
    /\ fires = 2
    /\ Len(EditsIn(calls)) = 2
    /\ EditsIn(calls)[1].content = <<"a">>
    /\ EditsIn(calls)[2].content = <<"a">>
    /\ ppc = "select"

\* C15: once done is closed, Start receives at most one further tick, and
\* after Start has returned the callback is not called any more.
C15_AtMostOneTickAfterDone ==
    [][ /\ ticksAfterDone' <= 1
        /\ ppc = "returned" => (ppc' = "returned" /\ delivered' = delivered
                                /\ EditsIn(calls') = EditsIn(calls)) ]_vars

\* the calls of the session on its collaborator, without the fetch by which
\* the plain Message's Create looks for an existing message
SessionCalls == SelectSeq(calls, LAMBDA c : c.fn # "ChannelMessage")

IsSend(c) == c.fn \in {"ChannelMessageSendReply", "ChannelMessageSend"}
IsEdit(c) == c.fn = "ChannelMessageEdit"
IsDelete(c) == c.fn = "ChannelMessageDelete"

\* C16: the calls of a started session are one send carrying the initial text,
\* then edits addressed to the id that send returned, each carrying trimmed
\* content of the file, then one delete addressed to that id: nothing follows
\* the delete, and a session that was stopped has issued it.
C16_SendEditsDelete ==
    LET cs == SessionCalls IN
    /\ cs # <<>> => (IsSend(cs[1]) /\ cs[1].content \in InitialTexts)
    /\ \A i \in 2..Len(cs) :
         /\ IsEdit(cs[i]) \/ IsDelete(cs[i])
         /\ cs[i].id = created.id
         /\ IsEdit(cs[i]) => \E c \in Contents : IsTrimOf(cs[i].content, c)
         /\ IsDelete(cs[i]) => i = Len(cs)
    /\ (apc = "returned" /\ stops > 0) => (Len(cs) >= 2 /\ IsDelete(cs[Len(cs)]))

\* Stop returns
StopReturns == spc \in {"delete", "finish"} /\ spc' = "none"

\* C17: a delete is issued only when done is closed; Stop returns what
\* Message.Delete returns: nil with the message id cleared when the remote
\* delete succeeded or answered not-found, an error with the id unchanged when
\* it failed otherwise.
C17_StopClosesThenDeletes ==
    [][ /\ (calls' # calls /\ IsDelete(calls'[Len(calls')])) => (done /\ done')
        /\ StopReturns =>
             /\ last'.op = "Delete"
             /\ spc = "finish" =>
                  IF dout \in {"ok", "notfound"}
                    THEN ~last'.err /\ MessageID' = "" /\ last'.remote = dout
                    ELSE last'.err /\ MessageID' = MessageID /\ MessageID # ""
                         /\ last'.remote = dout ]_vars

\* Stop has returned the error of a failed remote delete, the id is kept
C17_Witness ==
    /\ apc = "returned"
    /\ stops = 1
    /\ done
    /\ last = [op |-> "Delete", text |-> NoText, err |-> TRUE, remote |-> "error",
                                            exists |-> NotChecked]
    /\ MessageID = created.id
    /\ MessageID # ""
    /\ IsDelete(calls[Len(calls)])

\* the session check fails, the channel id is empty, or the reply variant has
\* no reply target
BadNewArgs(v, ck, ch, r) == ck \/ ch = "" \/ (v = "reply" /\ r = "")

\* C18: NewMessage and NewFilePollMessage return an error and no object for
\* a failing session check, an empty channel id or (reply variant) an empty
\* reply-target id; the Message of a successful construction has an empty
\* message id and the given channel and reply-target ids.
C18_Constructors ==
    [][ (apc = "init" /\ apc' # "init") =>
          /\ BadNewArgs(variant, newArgs'.ck, newArgs'.ch, newArgs'.r) =>
               (newArgs'.err /\ ~fpm' /\ apc' = "returned")
          /\ ~newArgs'.err =>
               /\ fpm'
               /\ MessageID' = ""
               /\ ChannelID' = newArgs'.ch
               /\ RepliedToMessageID' = (IF variant = "reply" THEN newArgs'.r ELSE "")
          /\ \A v \in Variants, ck \in BOOLEAN, ch \in ChannelIds \cup {""},
                r \in ReplyIds \cup {""} :
               /\ NewMessage(v, ck, ch, r).err <=> BadNewArgs(v, ck, ch, r)
               /\ ~NewMessage(v, ck, ch, r).err =>
                    /\ NewMessage(v, ck, ch, r).ChannelID = ch
                    /\ NewMessage(v, ck, ch, r).RepliedToMessageID =
                         (IF v = "reply" THEN r ELSE "") ]_vars

\* a reply-variant session has been constructed
C18_Witness ==
    /\ apc = "new"
    /\ fpm
    /\ variant = "reply"
    /\ newArgs = [ck |-> FALSE, ch |-> "c1", r |-> "r1", tmp |-> "ok", err |-> FALSE]
    /\ ChannelID = "c1"
    /\ RepliedToMessageID = "r1"
    /\ MessageID = ""
    /\ file = [exists |-> TRUE, data |-> NoText]

\* C20: an Apply that started its session calls Stop exactly once on every
\* exit path, so done is closed once and never a second time.
C20_StopExactlyOnce ==
    /\ stops <= 1
    /\ ~panicked
    /\ (apc = "returned" /\ ppc # "none") => (stops = 1 /\ done)

\* Message.Update has passed validate() and has not yet returned from its edit
UpdateInProgress == ppc = "edit"

\* Message.Delete has issued the remote delete and has not yet written the id
DeleteInProgress == spc = "finish"

\* C21: the calls on the session's Message are serialized: the polling
\* callback's Update is never in progress together with Stop's Delete, so the
\* message id is not read by the one while the other writes it.
C21_UpdateDeleteSerialized == ~(UpdateInProgress /\ DeleteInProgress)

\* C26: when Stop returns, the session is destroyed: the status message is
\* deleted (the id is cleared unless the delete reported an error) and the
\* progress file NewPollableFile created is removed from the filesystem.
C26_StopRemovesFile ==
    [][ StopReturns =>
          /\ ~last'.err => MessageID' = ""
          /\ ~file'.exists ]_vars

\* C28: a write of the file calls nothing and delivers nothing; the callback
\* gets, at a tick, the trimmed content the file holds at that tick, which is
\* the content written last; so there is at most one callback, and one edit,
\* per tick, however many writes there were.
C28_LastWriteWins ==
    [][ /\ (file' # file) =>
             (delivered' = delivered /\ ptext' = ptext /\ ppc' = ppc /\ calls' = calls)
        /\ (delivered' # delivered \/ (ppc = "read" /\ ppc' = "validate")) =>
             /\ ppc = "read"
             /\ file' = file
             /\ IsTrimOf(delivered', file.data)
             /\ ptext' = delivered'
        /\ Len(EditsIn(calls')) <= fires' ]_vars

\* two writes, then one tick: one edit, with the content written last
C28_Witness ==
    /\ writes = 2
    /\ fires = 1
    /\ ~tick
    /\ ppc = "select"
    /\ file = [exists |-> TRUE, data |-> <<"b">>]
    /\ delivered = <<"b">>
    /\ Len(EditsIn(calls)) = 1
    /\ EditsIn(calls)[1].content = <<"b">>

\* a call of FilePollMessage.Start returns: its Create is the last operation
StartReturns == last' # last /\ last'.op = "Create"

UpdateFails == ppc \in {"validate", "edit"} /\ ppc' \notin {"validate", "edit"} /\ perr' # Nil

\* C39: an error of Message.Update in the polling callback is only logged:
\* the loop goes on to its next iteration, what Start returned and what Stop
\* returns are the results of Create and of Delete alone, and the next tick
\* that reads non-empty content enters Update again.
C39_UpdateErrorSwallowed ==
    [][ /\ UpdateFails =>
             /\ ppc' = "select"
             /\ last' = last
             /\ <<apc, spc, exitPath, panicked, done>>' = <<apc, spc, exitPath, panicked, done>>
        /\ (perr # Nil /\ ppc = "read" /\ ppc' # "read"
                /\ file.exists /\ TrimSpace(file.data) # NoText) =>
             /\ ppc' = "validate"
             /\ ptext' = TrimSpace(file.data)
        /\ (perr # Nil /\ spc \in {"delete", "finish"} /\ spc' = "none") =>
             /\ last'.op = "Delete"
             /\ last'.err <=> (spc = "delete" \/ ~DeleteClearsID(dout)) ]_vars

\* the edit of the first tick failed, Start had long returned nil, and the
\* second tick has entered Update again and is about to issue its edit
C39_Witness ==
    /\ perr = "Update request"
    /\ ppc = "edit"
    /\ Len(calls) = 2
    /\ calls[2].fn = "ChannelMessageEdit"
    /\ last.op = "Create" /\ ~last.err
    /\ apc = "body"
    /\ fires = 2

\* ================================================== registry: properties

\* C23: for a given queue at most one view is ever created and one refresher
\* loop started, however many submissions are handled.
C23_OneViewPerQueue ==
    /\ \A a \in madeViews, b \in madeViews : a[1] = b[1] => a[2] = b[2]
    /\ \A i \in 1..Len(loops), j \in 1..Len(loops) : loops[i] = loops[j] => i = j
    /\ Len(loops) = Cardinality(madeViews)

\* C24: for a given channel at most one queue is ever created, and all the
\* submissions of one channel are enqueued on the same queue.
C24_OneQueuePerChannel ==
    /\ \A a \in madeQueues, b \in madeQueues : a[1] = b[1] => a[2] = b[2]
    /\ build = "maps" =>
         \A a \in enqueuedOn, b \in enqueuedOn : a[1] = b[1] => a[2] = b[2]

\* ================================== inline progress polling: properties

\* C31: on every exit path of Apply that follows the sending of the initial
\* message, the polling goroutine is cancelled (done is closed, so that the
\* goroutine deletes the initial message and returns).
C31_EveryExitCancels ==
    (ipc = "returned" /\ iexit # "send failure") => idone

====
